---- MODULE Spec2Model ----
(***************************************************************************)
(* A model of the Modern Notepad editor (pyapril15/Notepad): the syntax    *)
(* highlighter (features/syntax_highlighter.py), its wiring into the       *)
(* editor window (ui/editor_window.py) and the find/replace engine         *)
(* (features/search_replace.py).                                           *)
(*                                                                         *)
(* Documents are sequences of one-character strings.  Offsets are Python's *)
(* 0-based offsets; Tk text indices "line.col" are records [line, col].    *)
(***************************************************************************)
EXTENDS Integers, Sequences, FiniteSets, TLC

(***************************************************************************)
(* Python string helpers.                                                  *)
(***************************************************************************)
Min(a, b) == IF a <= b THEN a ELSE b

Max(a, b) == IF a >= b THEN a ELSE b

SetMax(S) == CHOOSE m \in S : \A k \in S : k <= m

SetMin(S) == CHOOSE m \in S : \A k \in S : m <= k

\* s[i] for a 0-based offset i
Ch(s, i) == s[i + 1]

\* s[a:b], with Python's clamping of b to len(s)
PySlice(s, a, b) == SubSeq(s, a + 1, Min(b, Len(s)))

\* s.count(c) for a one-character c
PyCount(s, c) == Cardinality({i \in 1..Len(s) : s[i] = c})

\* s.rfind(c, lo, hi) for a one-character c: the highest offset in [lo, hi), or -1
PyRFind(s, c, lo, hi) ==
  LET hits == {i \in lo..(Min(hi, Len(s)) - 1) : Ch(s, i) = c}
  IN  IF hits = {} THEN -1 ELSE SetMax(hits)

\* s.startswith(w, i)
StartsWith(s, w, i) ==
  /\ i + Len(w) <= Len(s)
  /\ \A k \in 1..Len(w) : s[i + k] = w[k]

\* str.strip() == "": only whitespace
Whitespace == {" ", "\t", "\n", "\r", "\f"}

IsBlank(s) == \A i \in 1..Len(s) : s[i] \in Whitespace

(***************************************************************************)
(* Character classes of Python's re module (str patterns, ASCII subset).   *)
(***************************************************************************)
Digits == {"0", "1", "2", "3", "4", "5", "6", "7", "8", "9"}

Letters ==
  {"a", "b", "c", "d", "e", "f", "g", "h", "i", "j", "k", "l", "m",
   "n", "o", "p", "q", "r", "s", "t", "u", "v", "w", "x", "y", "z",
   "A", "B", "C", "D", "E", "F", "G", "H", "I", "J", "K", "L", "M",
   "N", "O", "P", "Q", "R", "S", "T", "U", "V", "W", "X", "Y", "Z"}

\* \w
WordChars == Letters \cup Digits \cup {"_"}

IsWord(c) == c \in WordChars

\* \s
IsSpace(c) == c \in Whitespace

\* \b at offset i of s
WordBoundary(s, i) ==
  LET before == i > 0 /\ IsWord(Ch(s, i - 1))
      after  == i < Len(s) /\ IsWord(Ch(s, i))
  IN  before # after

\* the end of the longest run of characters satisfying the class, from offset i
RECURSIVE RunEnd(_, _, _)
RunEnd(s, i, cls) ==
  IF i < Len(s) /\ Ch(s, i) \in cls THEN RunEnd(s, i + 1, cls) ELSE i

(***************************************************************************)
(* The Python language definition: syntax_highlighter.py, lines 23-51.     *)
(***************************************************************************)
PythonKeywords ==
  << <<"a","n","d">>, <<"a","s">>, <<"a","s","s","e","r","t">>,
     <<"b","r","e","a","k">>, <<"c","l","a","s","s">>,
     <<"c","o","n","t","i","n","u","e">>, <<"d","e","f">>, <<"d","e","l">>,
     <<"e","l","i","f">>, <<"e","l","s","e">>, <<"e","x","c","e","p","t">>,
     <<"e","x","e","c">>, <<"f","i","n","a","l","l","y">>, <<"f","o","r">>,
     <<"f","r","o","m">>, <<"g","l","o","b","a","l">>, <<"i","f">>,
     <<"i","m","p","o","r","t">>, <<"i","n">>, <<"i","s">>,
     <<"l","a","m","b","d","a">>, <<"n","o","t">>, <<"o","r">>,
     <<"p","a","s","s">>, <<"p","r","i","n","t">>, <<"r","a","i","s","e">>,
     <<"r","e","t","u","r","n">>, <<"t","r","y">>, <<"w","h","i","l","e">>,
     <<"w","i","t","h">>, <<"y","i","e","l","d">>, <<"T","r","u","e">>,
     <<"F","a","l","s","e">>, <<"N","o","n","e">>, <<"s","e","l","f">>,
     <<"a","s","y","n","c">>, <<"a","w","a","i","t">>,
     <<"n","o","n","l","o","c","a","l">> >>

PythonBuiltins ==
  << <<"a","b","s">>, <<"a","l","l">>, <<"a","n","y">>, <<"b","i","n">>,
     <<"b","o","o","l">>, <<"c","h","r">>, <<"d","i","c","t">>,
     <<"d","i","r">>, <<"e","n","u","m","e","r","a","t","e">>,
     <<"e","v","a","l">>, <<"f","i","l","t","e","r">>,
     <<"f","l","o","a","t">>, <<"f","r","o","z","e","n","s","e","t">>,
     <<"g","e","t","a","t","t","r">>, <<"g","l","o","b","a","l","s">>,
     <<"h","a","s","a","t","t","r">>, <<"h","a","s","h">>, <<"h","e","x">>,
     <<"i","d">>, <<"i","n","p","u","t">>, <<"i","n","t">>,
     <<"i","s","i","n","s","t","a","n","c","e">>,
     <<"i","s","s","u","b","c","l","a","s","s">>, <<"i","t","e","r">>,
     <<"l","e","n">>, <<"l","i","s","t">>, <<"l","o","c","a","l","s">>,
     <<"m","a","p">>, <<"m","a","x">>, <<"m","i","n">>, <<"n","e","x","t">>,
     <<"o","b","j","e","c","t">>, <<"o","c","t">>, <<"o","p","e","n">>,
     <<"o","r","d">>, <<"p","o","w">>, <<"p","r","o","p","e","r","t","y">>,
     <<"r","a","n","g","e">>, <<"r","e","p","r">>,
     <<"r","e","v","e","r","s","e","d">>, <<"r","o","u","n","d">>,
     <<"s","e","t">>, <<"s","e","t","a","t","t","r">>,
     <<"s","l","i","c","e">>, <<"s","o","r","t","e","d">>, <<"s","t","r">>,
     <<"s","u","m">>, <<"s","u","p","e","r">>, <<"t","u","p","l","e">>,
     <<"t","y","p","e">>, <<"v","a","r","s">>, <<"z","i","p">>,
     <<"_","_","i","m","p","o","r","t","_","_">> >>

(***************************************************************************)
(* The regular expressions of the Python definition, matched as            *)
(* re.finditer(pattern, content, re.MULTILINE | re.DOTALL) matches them.   *)
(* A match attempt at offset i yields [s, e, end]: the span of the         *)
(* reported group and the end of the whole match, or NoMatch.              *)
(***************************************************************************)
NoMatch == [s |-> -1, e |-> -1, end |-> -1]

Whole(i, end) == IF end = -1 THEN NoMatch ELSE [s |-> i, e |-> end, end |-> end]

\* qqq.*?qqq at offset i (DOTALL, lazy): past the nearest closing triple quote
TripleEnd(s, i, q) ==
  LET tq == <<q, q, q>>
      closes == {j \in (i + 3)..(Len(s) - 3) : StartsWith(s, tq, j)}
  IN  IF StartsWith(s, tq, i) /\ closes # {} THEN SetMin(closes) + 3 ELSE -1

\* the greedy body (?:[^q\\]|\\.)* from offset i
RECURSIVE QuotedBodyEnd(_, _, _)
QuotedBodyEnd(s, i, q) ==
  IF i >= Len(s) THEN i
  ELSE IF Ch(s, i) = "\\"
       THEN IF i + 1 < Len(s) THEN QuotedBodyEnd(s, i + 2, q) ELSE i
  ELSE IF Ch(s, i) = q THEN i
  ELSE QuotedBodyEnd(s, i + 1, q)

\* q(?:[^q\\]|\\.)*q at offset i
QuotedEnd(s, i, q) ==
  IF i < Len(s) /\ Ch(s, i) = q
  THEN LET b == QuotedBodyEnd(s, i + 1, q)
       IN  IF b < Len(s) /\ Ch(s, b) = q THEN b + 1 ELSE -1
  ELSE -1

\* 'string': the four alternatives in their order
StringEnd(s, i) ==
  IF TripleEnd(s, i, "\"") # -1 THEN TripleEnd(s, i, "\"")
  ELSE IF TripleEnd(s, i, "'") # -1 THEN TripleEnd(s, i, "'")
  ELSE IF QuotedEnd(s, i, "\"") # -1 THEN QuotedEnd(s, i, "\"")
  ELSE QuotedEnd(s, i, "'")

\* 'comment': #.*$ ; with DOTALL the greedy .* runs to the end of the content
CommentEnd(s, i) == IF i < Len(s) /\ Ch(s, i) = "#" THEN Len(s) ELSE -1

\* 'decorator': @\w+
DecoratorEnd(s, i) ==
  IF i < Len(s) /\ Ch(s, i) = "@" /\ RunEnd(s, i + 1, WordChars) > i + 1
  THEN RunEnd(s, i + 1, WordChars)
  ELSE -1

\* 'function_def' and 'class_def': \b<word>\s+(\w+), reported by group 1
DefMatch(s, i, word) ==
  LET a == RunEnd(s, i + Len(word), Whitespace)
      b == RunEnd(s, a, WordChars)
  IN  IF /\ WordBoundary(s, i)
         /\ StartsWith(s, word, i)
         /\ a > i + Len(word)
         /\ b > a
      THEN [s |-> a, e |-> b, end |-> b]
      ELSE NoMatch

\* 'number': \b\d+\.?\d*\b ; the backtracking order is: longest \d+, then the
\* dot taken before the dot skipped, then longest \d*
NumberEnd(s, i) ==
  IF ~(i < Len(s) /\ Ch(s, i) \in Digits /\ WordBoundary(s, i)) THEN -1
  ELSE
    LET cands == {x \in ((i + 1)..RunEnd(s, i, Digits)) \X {0, 1} \X ((i + 1)..Len(s)) :
                    /\ x[2] = 1 => (x[1] < Len(s) /\ Ch(s, x[1]) = ".")
                    /\ x[3] >= x[1] + x[2]
                    /\ x[3] <= RunEnd(s, x[1] + x[2], Digits)
                    /\ WordBoundary(s, x[3])}
        Better(x, y) ==
          \/ x[1] > y[1]
          \/ x[1] = y[1] /\ x[2] > y[2]
          \/ x[1] = y[1] /\ x[2] = y[2] /\ x[3] >= y[3]
    IN  IF cands = {} THEN -1
        ELSE (CHOOSE x \in cands : \A y \in cands : Better(x, y))[3]

\* _highlight_keywords: \b(?:w1|w2|...)\b ; the first alternative that fits wins
KeywordEnd(s, i, words) ==
  LET fits == {k \in 1..Len(words) :
                 StartsWith(s, words[k], i) /\ WordBoundary(s, i + Len(words[k]))}
  IN  IF WordBoundary(s, i) /\ fits # {} THEN i + Len(words[SetMin(fits)]) ELSE -1

\* The passes of _highlight_python, in their order.
PythonPasses ==
  << [pat |-> "string",       tag |-> "syntax_string"],
     [pat |-> "comment",      tag |-> "syntax_comment"],
     [pat |-> "decorator",    tag |-> "syntax_decorator"],
     [pat |-> "function_def", tag |-> "syntax_function"],
     [pat |-> "class_def",    tag |-> "syntax_class"],
     [pat |-> "number",       tag |-> "syntax_number"],
     [pat |-> "keywords",     tag |-> "syntax_keyword"],
     [pat |-> "builtins",     tag |-> "syntax_builtin"] >>

NumPasses == Len(PythonPasses)

MatchAt(pat, s, i) ==
  CASE pat = "string"       -> Whole(i, StringEnd(s, i))
    [] pat = "comment"      -> Whole(i, CommentEnd(s, i))
    [] pat = "decorator"    -> Whole(i, DecoratorEnd(s, i))
    [] pat = "function_def" -> DefMatch(s, i, <<"d", "e", "f">>)
    [] pat = "class_def"    -> DefMatch(s, i, <<"c", "l", "a", "s", "s">>)
    [] pat = "number"       -> Whole(i, NumberEnd(s, i))
    [] pat = "keywords"     -> Whole(i, KeywordEnd(s, i, PythonKeywords))
    [] pat = "builtins"     -> Whole(i, KeywordEnd(s, i, PythonBuiltins))

\* re.finditer: the leftmost match at or after pos, then on from its end
RECURSIVE FindIter(_, _, _)
FindIter(pat, s, pos) ==
  LET starts == {i \in pos..Len(s) : MatchAt(pat, s, i).end # -1}
  IN  IF starts = {} THEN <<>>
      ELSE LET i == SetMin(starts)
               m == MatchAt(pat, s, i)
           IN  <<[s |-> m.s, e |-> m.e]>>
                 \o FindIter(pat, s, IF m.end > i THEN m.end ELSE i + 1)

(***************************************************************************)
(* Text widget indices.                                                    *)
(***************************************************************************)
\* _get_text_index counting lines from 0
GetTextIndexLineFromZero(content, char_pos) ==
  LET lines_before == PyCount(PySlice(content, 0, char_pos), "\n")
      line_start   == PyRFind(content, "\n", 0, char_pos)
      col          == IF line_start # -1 THEN char_pos - line_start - 1 ELSE char_pos
  IN  [line |-> lines_before, col |-> col]

\* _get_text_index counting the column from the newline, not from after it
GetTextIndexColFromNewline(content, char_pos) ==
  LET lines_before == PyCount(PySlice(content, 0, char_pos), "\n")
      line_start   == PyRFind(content, "\n", 0, char_pos)
      col          == IF line_start # -1 THEN char_pos - line_start ELSE char_pos
  IN  [line |-> lines_before + 1, col |-> col]

\* SyntaxHighlighter._get_text_index
GetTextIndex(content, char_pos) ==
  LET lines_before == PyCount(PySlice(content, 0, char_pos), "\n")
      line_start   == PyRFind(content, "\n", 0, char_pos)
      col          == IF line_start # -1 THEN char_pos - line_start - 1 ELSE char_pos
  IN  [line |-> lines_before + 1, col |-> col]

\* What the widget holds: the document and Tk's final newline.
WidgetText(doc) == doc \o <<"\n">>

NewlineOffsets(w) == {i \in 0..(Len(w) - 1) : Ch(w, i) = "\n"}

\* the offset of the newline that ends line l of w
LineEndOffset(w, l) ==
  CHOOSE i \in NewlineOffsets(w) : Cardinality({j \in NewlineOffsets(w) : j <= i}) = l

LineStartOffset(w, l) == IF l <= 1 THEN 0 ELSE LineEndOffset(w, l - 1) + 1

\* Tk's reading of "line.col": a line past the last one is the end of the text,
\* a column past the line's end is the line's newline.
TkOffset(doc, idx) ==
  LET w == WidgetText(doc)
  IN  IF idx.line > Cardinality(NewlineOffsets(w)) THEN Len(w)
      ELSE IF idx.line < 1 THEN 0
      ELSE Min(LineStartOffset(w, idx.line) + idx.col, LineEndOffset(w, idx.line))

\* The call self._add_tag_safe(tag, start_pos, end_pos) that _highlight_pattern
\* schedules for one match.
TagCall(content, tag, m) ==
  [tag |-> tag, start |-> GetTextIndex(content, m.s), end |-> GetTextIndex(content, m.e)]

\* All calls one pass schedules when it is not cancelled.
PassCalls(content, k) ==
  LET ms == FindIter(PythonPasses[k].pat, content, 0)
  IN  [n \in 1..Len(ms) |-> TagCall(content, PythonPasses[k].tag, ms[n])]

(***************************************************************************)
(* Bounds of the model.                                                    *)
(***************************************************************************)
\* highlight worker threads started in one run
MaxScans == 2

\* keystrokes that edit the text in one run
MaxEdits == 2

\* files opened in one run
MaxOpens == 1

\* length of the edited document
MaxTextLen == 2

\* calls of toggle_highlighting and force_language in one run
MaxCalls == 1

\* auto-save worker threads started in one run
MaxSavers == 2

(***************************************************************************)
(* The editor's state.                                                     *)
(***************************************************************************)
VARIABLES
  text,              \* the text widget's content (without Tk's final newline)
  tags,              \* per character: the syntax tags on it, each with the scan that asked for it
  tkModified,        \* the text widget's modified flag
  events,            \* widget events queued for the main loop
  bindings,          \* event sequence -> the handler bound on the text widget
  current_file,      \* EditorWindow.current_file
  file_type,         \* SyntaxHighlighter.file_type
  is_highlighting,   \* SyntaxHighlighter.is_highlighting
  stop_highlighting, \* SyntaxHighlighter.stop_highlighting
  highlight_thread,  \* SyntaxHighlighter.highlight_thread: the last worker started, 0 for None
  highlight_timer,   \* SyntaxHighlighter._highlight_timer: an after() id, 0 while the attribute is unset
  timers,            \* the after() timers Tk holds pending
  idleQ,             \* the after_idle() callbacks Tk holds pending, oldest first
  workers,           \* worker threads of _highlight_worker, by the order they were started
  mainPc,            \* "idle": in the main loop; "join": inside highlight(), in thread.join
  hist,              \* history: counters and what the last handlers did
  insert,            \* the offset of the widget's INSERT mark (the cursor)
  case_sensitive,    \* SearchReplace.case_sensitive
  whole_words,       \* SearchReplace.whole_words
  use_regex,         \* SearchReplace.use_regex
  wrap_around,       \* SearchReplace.wrap_around
  last_search,       \* SearchReplace.last_search
  dialogs,           \* the message boxes shown so far, oldest first
  frame,             \* the frame of the operation that is running or has returned
  patterns,          \* languages['python']['patterns']: per pattern, whether re compiles it
  is_modified,       \* EditorWindow.is_modified
  config,            \* ConfigLoader.config: the keys used here
  enabled,           \* AutoSave.enabled
  is_running,        \* AutoSave.is_running
  stop_thread,       \* AutoSave.stop_thread
  auto_save_thread,  \* AutoSave.auto_save_thread: the last worker started, 0 for None
  last_content_hash, \* AutoSave.last_content_hash: NoHash at first, then a Hash
  savers,            \* threads of _auto_save_worker, by the order they were started
  disk,              \* the content of the file current_file on disk
  protocol,          \* the window's WM_DELETE_WINDOW handler
  editor_windows,    \* ModernNotepadApp.editor_windows
  window,            \* the editor's Toplevel: "open", "closing" (WM_DELETE_WINDOW pending), "destroyed"
  root               \* the application's root: "running" or "quit"

\* the search engine's fields and frame
findVars == <<case_sensitive, whole_words, use_regex, wrap_around, last_search, dialogs, frame>>

searchVars == <<insert, findVars>>

\* the auto-save module's fields and its threads
saveVars ==
  <<enabled, is_running, stop_thread, auto_save_thread, last_content_hash, savers>>

\* the window and the application
winVars == <<protocol, editor_windows, window, root>>

appVars == <<is_modified, config, disk, saveVars, winVars>>

(***************************************************************************)
(* The language table (syntax_highlighter.py, lines 22-150).  Python is    *)
(* the language modelled; the extensions of the other languages are not    *)
(* among the files opened here.                                            *)
(***************************************************************************)
Languages == {"python"}

\* languages['python']['patterns'] (lines 43-50): every regex compiles
PythonPatterns ==
  [pat \in {"comment", "string", "number", "decorator", "function_def", "class_def"}
     |-> "compiles"]

Extensions(lang) == {".py", ".pyw", ".pyx"}

\* str.lower() on the extensions used here
Lower(ext) == IF ext = ".PY" THEN ".py" ELSE ext

\* A path is its root and extension, as os.path.splitext splits it; "" is no path.
NoPath == [root |-> "", ext |-> ""]

Paths ==
  { [root |-> "b", ext |-> ".PY"],
    [root |-> "c", ext |-> ".txt"] }

\* SyntaxHighlighter.set_file_type
SetFileType(file_path) ==
  IF file_path = NoPath THEN "None"
  ELSE LET ext == Lower(file_path.ext)
           langs == {l \in Languages : ext \in Extensions(l)}
       IN  IF langs # {} THEN CHOOSE l \in langs : TRUE ELSE "text"

\* the check of lines 223, 491 and 511 without its 'text' part
HighlightableUnlessNone(ft) == ft # "None"

\* `not self.file_type or self.file_type == 'text'` (lines 223, 491, 511), negated
Highlightable(ft) == ~(ft = "None" \/ ft = "text")

\* _clear_syntax_tags removes these
SyntaxTags ==
  {"syntax_keyword", "syntax_builtin", "syntax_string", "syntax_comment",
   "syntax_number", "syntax_function", "syntax_class", "syntax_decorator",
   "syntax_tag", "syntax_attribute", "syntax_property", "syntax_selector",
   "syntax_header", "syntax_bold", "syntax_italic", "syntax_code",
   "syntax_link"}

(***************************************************************************)
(* Event bindings.  widget.bind(sequence, func) replaces whatever was      *)
(* bound to the sequence before (no add='+').                              *)
(***************************************************************************)
Bind(b, sequence, func) == [b EXCEPT ![sequence] = func]

NoBindings == [e \in {"<KeyRelease>", "<<Modified>>"} |-> "none"]

\* The bind calls of EditorWindow.__init__, in the order they run: _setup_ui
\* (the editor's own), then _setup_features: SyntaxHighlighter, SpellChecker
\* (only when the spellchecker package imported), AutoSave.
BindingsAfterSetup(spellchecker_available) ==
  LET b1 == Bind(NoBindings, "<KeyRelease>", "EditorWindow._on_text_change")
      b2 == Bind(b1, "<<Modified>>", "EditorWindow._on_modified")
      b3 == Bind(b2, "<KeyRelease>", "SyntaxHighlighter._on_text_change")
      b4 == Bind(b3, "<<Modified>>", "SyntaxHighlighter._on_modified")
      b5 == IF spellchecker_available
            THEN Bind(b4, "<KeyRelease>", "SpellChecker._on_text_change")
            ELSE b4
  IN  Bind(b5, "<<Modified>>", "AutoSave._on_text_modified")

(***************************************************************************)
(* The configuration (utils/config_loader.py) and what EditorWindow,       *)
(* AutoSave and ModernNotepadApp hold once a window has been constructed.  *)
(***************************************************************************)
\* ConfigLoader.default_config, lines 22-57: the keys used here
DefaultConfig == [recent_files |-> <<>>, max_recent_files |-> 10, autosave_enabled |-> TRUE]

\* list.remove(x): the first x goes
RECURSIVE PyRemove(_, _)
PyRemove(list, x) ==
  IF list = <<>> THEN <<>>
  ELSE IF Head(list) = x THEN Tail(list)
  ELSE <<Head(list)>> \o PyRemove(Tail(list), x)

\* x in list
PyIn(x, list) == \E i \in DOMAIN list : list[i] = x

\* list[:n]; a negative n counts from the end
PyPrefix(list, n) == IF n >= 0 THEN PySlice(list, 0, n) ELSE PySlice(list, 0, Max(0, Len(list) + n))

\* add_recent_file without the removal of the entry the list already has
AddRecentFileKeepsOld(cfg, file_path) ==
  LET recent_files == cfg.recent_files
      inserted     == <<file_path>> \o recent_files
      max_recent   == cfg.max_recent_files
  IN  [cfg EXCEPT !.recent_files = PyPrefix(inserted, max_recent)]

\* ConfigLoader.add_recent_file
AddRecentFile(cfg, file_path) ==
  LET recent_files == cfg.recent_files
      removed      == IF PyIn(file_path, recent_files) THEN PyRemove(recent_files, file_path)
                      ELSE recent_files
      inserted     == <<file_path>> \o removed
      max_recent   == cfg.max_recent_files
  IN  [cfg EXCEPT !.recent_files = PyPrefix(inserted, max_recent)]

\* ConfigLoader.remove_recent_file
RemoveRecentFile(cfg, file_path) ==
  IF PyIn(file_path, cfg.recent_files)
  THEN [cfg EXCEPT !.recent_files = PyRemove(cfg.recent_files, file_path)]
  ELSE cfg

\* ConfigLoader.clear_recent_files
ClearRecentFiles(cfg) == [cfg EXCEPT !.recent_files = <<>>]

\* last_content_hash = None
NoHash == <<>>

\* hash(current_content): equal for equal contents, and taken to differ
\* for the different contents met here
Hash(content) == <<content>>

\* a thread of _auto_save_worker that has not been started
NewSaver == [pc |-> "unborn", current_content |-> <<>>]

\* AutoSave.__init__ with autosave_enabled: the fields' first values, then
\* start() (lines 23-48)
AutoSaveInit ==
  /\ enabled = TRUE
  /\ is_running = TRUE
  /\ stop_thread = FALSE
  /\ auto_save_thread = 1
  /\ last_content_hash = NoHash
  /\ savers = [s \in 1..MaxSavers |-> IF s = 1 THEN [NewSaver EXCEPT !.pc = "while"]
                                      ELSE NewSaver]

\* window.protocol("WM_DELETE_WINDOW", func) keeps one handler, the last one
\* set: EditorWindow._create_window sets close, then AutoSave._setup_events
\* sets its own
ProtocolAfterSetup ==
  LET p1 == "EditorWindow.close"
      p2 == "AutoSave._on_window_close"
  IN  p2

\* The editor's window is in the application's list: the state after
\* ModernNotepadApp.new_window, with recent the recent-files list and
\* on_disk the content of the file the window shows.
AppInit(recent, on_disk) ==
  /\ is_modified = FALSE
  /\ config = [DefaultConfig EXCEPT !.recent_files = recent]
  /\ disk = on_disk
  /\ AutoSaveInit
  /\ protocol = ProtocolAfterSetup
  /\ editor_windows = {1}
  /\ window = "open"
  /\ root = "running"

(***************************************************************************)
(* The highlighter: documents, workers, the main loop.                     *)
(***************************************************************************)
\* files on disk that open_file may read
FileContents == { <<"#", " ">> }

\* characters the user types
TypedChars == {"#"}

NewWorker ==
  [pc |-> "unborn", pass |-> 0, idx |-> 0, content |-> <<>>,
   \* history: the edit count the snapshot was taken at; whether stop_highlighting
   \* was set while the worker ran, whether by highlight(force=True); whether the
   \* worker, after that, passed a check of the flag that read False
   ver |-> -1, cancelled |-> FALSE, preempted |-> FALSE, ranOn |-> FALSE]

Alive(w) == workers[w].pc \notin {"unborn", "done"}

NoTags(doc) == [i \in 1..Len(doc) |-> {}]

\* text_widget.tag_remove(t, '1.0', 'end') for every syntax tag
ClearSyntaxTags(tg) == [i \in DOMAIN tg |-> {x \in tg[i] : x.tag \notin SyntaxTags}]

\* text_widget.tag_add(tag, start, end) on behalf of a scan
TagAdd(doc, tg, call) ==
  LET o1 == TkOffset(doc, call.start)
      o2 == TkOffset(doc, call.end)
  IN  [i \in DOMAIN tg |->
         IF o1 <= i - 1 /\ i - 1 < o2
         THEN tg[i] \cup {[tag |-> call.tag, scan |-> call.scan]}
         ELSE tg[i]]

\* Typing a character at offset p: Tk gives it the tags its two neighbours share.
InsertAt(s, p, c) == SubSeq(s, 1, p) \o <<c>> \o SubSeq(s, p + 1, Len(s))

InsertTags(tg, p) ==
  SubSeq(tg, 1, p)
    \o << IF p >= 1 /\ p < Len(tg) THEN tg[p] \cap tg[p + 1] ELSE {} >>
    \o SubSeq(tg, p + 1, Len(tg))

\* Deleting the character at offset p takes its tags with it.
DeleteAt(s, p) == SubSeq(s, 1, p) \o SubSeq(s, p + 2, Len(s))

\* SyntaxHighlighter.highlight, lines 236-238: the new worker thread
StartThread ==
  /\ hist.nscans < MaxScans
  /\ stop_highlighting' = FALSE
  /\ highlight_thread' = hist.nscans + 1
  /\ workers' = [workers EXCEPT ![hist.nscans + 1].pc = "begin"]
  /\ mainPc' = "idle"

\* SyntaxHighlighter.highlight, called with file_type ft.  h is the rest of the
\* history record the caller writes.  With a live highlight_thread the call
\* sets the flag and waits in join (JoinReturn is the rest of it).
Highlight(ft, force, h) ==
  IF ~Highlightable(ft) \/ (is_highlighting /\ ~force)
  THEN /\ UNCHANGED <<stop_highlighting, highlight_thread, workers, mainPc>>
       /\ hist' = h
  ELSE IF highlight_thread # 0 /\ Alive(highlight_thread)
  THEN /\ hist.nscans < MaxScans
       /\ stop_highlighting' = TRUE
       /\ mainPc' = "join"
       /\ workers' = [w \in DOMAIN workers |->
                        IF Alive(w)
                        THEN [workers[w] EXCEPT !.cancelled = TRUE,
                                                !.preempted = @ \/ force]
                        ELSE workers[w]]
       /\ highlight_thread' = highlight_thread
       /\ hist' = h
  ELSE /\ StartThread
       /\ hist' = [h EXCEPT !.nscans = @ + 1]

\* thread.join(timeout=0.1) returns: the worker ended, or 0.1 s went by
JoinReturn ==
  /\ mainPc = "join"
  /\ StartThread
  /\ hist' = [hist EXCEPT !.nscans = @ + 1]
  /\ UNCHANGED <<appVars, patterns, searchVars, text, tags, tkModified, events, bindings, current_file, file_type,
                 is_highlighting, highlight_timer, timers, idleQ>>

\* The text widget's modified flag: the first change after it was reset raises
\* it and generates <<Modified>>.
Touch(evs) == IF tkModified THEN evs ELSE Append(evs, "<<Modified>>")

\* FileOperations.open_file, lines 118-136
OpenFile(path, content) ==
  /\ mainPc = "idle"
  /\ hist.opens < MaxOpens
  /\ text' = content
  /\ tags' = NoTags(content)
  /\ insert' = Len(content)
  /\ tkModified' = TRUE
  /\ events' = Touch(events)
  /\ current_file' = path
  /\ file_type' = SetFileType(path)
  /\ is_modified' = FALSE
  /\ config' = AddRecentFile(config, path)
  /\ disk' = content
  /\ Highlight(file_type', FALSE, [hist EXCEPT !.opens = @ + 1])
  /\ UNCHANGED <<saveVars, winVars, patterns, findVars, bindings, is_highlighting,
                 highlight_timer, timers, idleQ>>

\* A key press that inserts c at offset p; its release follows.
TypeChar(p, c) ==
  /\ mainPc = "idle"
  /\ events = <<>>
  /\ hist.edits < MaxEdits
  /\ Len(text) < MaxTextLen
  /\ text' = InsertAt(text, p, c)
  /\ tags' = InsertTags(tags, p)
  /\ insert' = p + 1
  /\ tkModified' = TRUE
  /\ events' = Append(Touch(events), "<KeyRelease>")
  /\ hist' = [hist EXCEPT !.edits = @ + 1]
  /\ UNCHANGED <<appVars, patterns, findVars, bindings, current_file, file_type, is_highlighting, stop_highlighting,
                 highlight_thread, highlight_timer, timers, idleQ, workers, mainPc>>

\* A key press that deletes the character at offset p; its release follows.
DeleteChar(p) ==
  /\ mainPc = "idle"
  /\ events = <<>>
  /\ hist.edits < MaxEdits
  /\ text' = DeleteAt(text, p)
  /\ tags' = DeleteAt(tags, p)
  /\ insert' = p
  /\ tkModified' = TRUE
  /\ events' = Append(Touch(events), "<KeyRelease>")
  /\ hist' = [hist EXCEPT !.edits = @ + 1]
  /\ UNCHANGED <<appVars, patterns, findVars, bindings, current_file, file_type, is_highlighting, stop_highlighting,
                 highlight_thread, highlight_timer, timers, idleQ, workers, mainPc>>

\* SyntaxHighlighter._on_text_change (and _on_modified, which calls it)
SHOnTextChange(h) ==
  /\ IF ~Highlightable(file_type)
     THEN UNCHANGED <<highlight_timer, timers>> /\ hist' = h
     ELSE /\ highlight_timer' = h.timerSeq + 1
          /\ timers' = (timers \ {highlight_timer}) \cup {h.timerSeq + 1}
          /\ hist' = [h EXCEPT !.timerSeq = @ + 1]
  /\ UNCHANGED <<stop_highlighting, highlight_thread, workers, mainPc>>

\* EditorWindow._on_text_change
EditorOnTextChange(h) ==
  /\ IF current_file # NoPath
     THEN Highlight(file_type, FALSE, h)
     ELSE UNCHANGED <<stop_highlighting, highlight_thread, workers, mainPc>> /\ hist' = h
  /\ UNCHANGED <<highlight_timer, timers>>

\* The main loop takes the next widget event and runs the handler bound to it.
\* SpellChecker._on_text_change and AutoSave._on_text_modified touch nothing of
\* the highlighter; EditorWindow._on_modified resets the widget's flag.
Deliver ==
  /\ mainPc = "idle"
  /\ events # <<>>
  /\ LET func == bindings[Head(events)]
         \* the event comes from a key press: its <KeyRelease> is it or follows it
         edit == \E i \in 1..Min(2, Len(events)) : events[i] = "<KeyRelease>"
         h == [hist EXCEPT !.eventVer = IF Highlightable(file_type) /\ edit
                                        THEN hist.edits ELSE @,
                           !.burst = @ \/ (Highlightable(file_type) /\ edit)]
     IN  /\ events' = Tail(events)
         /\ tkModified' = IF func = "EditorWindow._on_modified" THEN FALSE ELSE tkModified
         /\ is_modified' = IF func = "EditorWindow._on_modified" /\ tkModified THEN TRUE
                            ELSE is_modified
         /\ CASE func \in {"SyntaxHighlighter._on_text_change",
                           "SyntaxHighlighter._on_modified"} -> SHOnTextChange(h)
              [] func = "EditorWindow._on_text_change" -> EditorOnTextChange(h)
              [] OTHER -> /\ hist' = h
                          /\ UNCHANGED <<stop_highlighting, highlight_thread, workers,
                                         mainPc, highlight_timer, timers>>
  /\ UNCHANGED <<config, disk, saveVars, winVars, patterns, searchVars, text, tags, bindings,
                 current_file, file_type, is_highlighting, idleQ>>

\* The after(500) timer t comes due: SyntaxHighlighter._delayed_highlight
TimerFire(t) ==
  /\ mainPc = "idle"
  /\ t \in timers
  /\ timers' = timers \ {t}
  /\ LET h == [hist EXCEPT !.burst = FALSE,
                            !.lastFire = IF ~Highlightable(file_type) THEN "off"
                                         ELSE IF is_highlighting THEN "skipped"
                                         ELSE "rescan"]
     IN  IF ~is_highlighting
         THEN Highlight(file_type, FALSE, h)
         ELSE /\ hist' = h
              /\ UNCHANGED <<stop_highlighting, highlight_thread, workers, mainPc>>
  /\ UNCHANGED <<appVars, patterns, searchVars, text, tags, tkModified, events, bindings, current_file, file_type,
                 is_highlighting, highlight_timer, idleQ>>

\* The main loop is idle and runs the oldest after_idle callback: _add_tag_safe
IdleRun ==
  /\ mainPc = "idle"
  /\ events = <<>>
  /\ idleQ # <<>>
  /\ tags' = TagAdd(text, tags, Head(idleQ))
  /\ idleQ' = Tail(idleQ)
  /\ UNCHANGED <<appVars, patterns, searchVars, text, tkModified, events, bindings, current_file, file_type,
                 is_highlighting, stop_highlighting, highlight_thread, highlight_timer,
                 timers, workers, mainPc, hist>>

\* SyntaxHighlighter.toggle_highlighting
ToggleHighlighting ==
  /\ mainPc = "idle"
  /\ hist.calls < MaxCalls
  /\ Highlightable(file_type)
  /\ IF is_highlighting
     THEN /\ stop_highlighting' = TRUE
          /\ tags' = ClearSyntaxTags(tags)
          /\ workers' = [w \in DOMAIN workers |->
                           IF Alive(w) THEN [workers[w] EXCEPT !.cancelled = TRUE]
                           ELSE workers[w]]
          /\ hist' = [hist EXCEPT !.calls = @ + 1]
          /\ UNCHANGED <<highlight_thread, mainPc>>
     ELSE /\ Highlight(file_type, FALSE, [hist EXCEPT !.calls = @ + 1])
          /\ tags' = tags
  /\ UNCHANGED <<appVars, patterns, searchVars, text, tkModified, events, bindings, current_file, file_type,
                 is_highlighting, highlight_timer, timers, idleQ>>

\* SyntaxHighlighter.force_language
ForceLanguage(language) ==
  /\ mainPc = "idle"
  /\ hist.calls < MaxCalls
  /\ IF language \in Languages
     THEN /\ file_type' = language
          /\ Highlight(language, TRUE, [hist EXCEPT !.calls = @ + 1])
          /\ tags' = tags
     ELSE /\ file_type' = "text"
          /\ tags' = ClearSyntaxTags(tags)
          /\ hist' = [hist EXCEPT !.calls = @ + 1]
          /\ UNCHANGED <<stop_highlighting, highlight_thread, workers, mainPc>>
  /\ UNCHANGED <<appVars, patterns, searchVars, text, tkModified, events, bindings, current_file,
                 is_highlighting, highlight_timer, timers, idleQ>>

(***************************************************************************)
(* SyntaxHighlighter._highlight_worker, one thread w.  Each step is one    *)
(* read or write of a shared field or one call into the widget.            *)
(***************************************************************************)
\* on to the next _highlight_pattern call of _highlight_python, or to finally
NextPass(r) ==
  IF r.pass < NumPasses
  THEN [r EXCEPT !.pass = @ + 1, !.idx = 0]
  ELSE [r EXCEPT !.pc = "finally", !.pass = 0, !.idx = 0]

\* line 242: self.is_highlighting = True
WorkerBegin(w) ==
  /\ workers[w].pc = "begin"
  /\ is_highlighting' = TRUE
  /\ workers' = [workers EXCEPT ![w].pc = "get"]
  /\ UNCHANGED <<appVars, patterns, searchVars, text, tags, tkModified, events, bindings, current_file, file_type,
                 stop_highlighting, highlight_thread, highlight_timer, timers, idleQ,
                 mainPc, hist>>

\* lines 246-249: the snapshot; an empty or blank one ends the scan
WorkerGet(w) ==
  /\ workers[w].pc = "get"
  /\ workers' = [workers EXCEPT ![w].content = text,
                                ![w].ver = hist.edits,
                                ![w].pc = IF IsBlank(text) THEN "finally" ELSE "clear"]
  /\ UNCHANGED <<appVars, patterns, searchVars, text, tags, tkModified, events, bindings, current_file, file_type,
                 is_highlighting, stop_highlighting, highlight_thread, highlight_timer,
                 timers, idleQ, mainPc, hist>>

\* line 252: self._clear_syntax_tags()
WorkerClear(w) ==
  /\ workers[w].pc = "clear"
  /\ tags' = ClearSyntaxTags(tags)
  /\ workers' = [workers EXCEPT ![w].pc = "dispatch"]
  /\ UNCHANGED <<appVars, patterns, searchVars, text, tkModified, events, bindings, current_file, file_type,
                 is_highlighting, stop_highlighting, highlight_thread, highlight_timer,
                 timers, idleQ, mainPc, hist>>

\* a worker that reads the widget's text again when it branches on the language
WorkerDispatchRereads(w) ==
  /\ workers[w].pc = "dispatch"
  /\ workers' = [workers EXCEPT ![w] = IF file_type = "python"
                                       THEN [@ EXCEPT !.pc = "pass", !.pass = 1, !.idx = 0,
                                                      !.content = text]
                                       ELSE [@ EXCEPT !.pc = "finally"]]
  /\ UNCHANGED <<appVars, patterns, searchVars, text, tags, tkModified, events, bindings, current_file,
                 file_type, is_highlighting, stop_highlighting, highlight_thread,
                 highlight_timer, timers, idleQ, mainPc, hist>>

\* lines 258-271: the branch on self.file_type; the languages other than
\* Python are not among the file types here
WorkerDispatch(w) ==
  /\ workers[w].pc = "dispatch"
  /\ workers' = [workers EXCEPT ![w] = IF file_type = "python"
                                       THEN [@ EXCEPT !.pc = "pass", !.pass = 1, !.idx = 0]
                                       ELSE [@ EXCEPT !.pc = "finally"]]
  /\ UNCHANGED <<appVars, patterns, searchVars, text, tags, tkModified, events, bindings, current_file,
                 file_type, is_highlighting, stop_highlighting, highlight_thread,
                 highlight_timer, timers, idleQ, mainPc, hist>>

\* re.finditer(pattern, ...) of pass k raises re.error
Malformed(k) ==
  /\ PythonPasses[k].pat \in DOMAIN patterns
  /\ patterns[PythonPasses[k].pat] # "compiles"

\* _highlight_pattern that lets the re.error of a malformed pattern out: it
\* ends the scan in _highlight_worker's except clause
WorkerPassRaises(w) ==
  /\ workers[w].pc = "pass"
  /\ LET r == workers[w]
         calls == PassCalls(r.content, r.pass)
         on == [r EXCEPT !.ranOn = @ \/ r.preempted]
     IN  IF stop_highlighting
         THEN /\ workers' = [workers EXCEPT ![w] = NextPass(r)]
              /\ idleQ' = idleQ
         ELSE IF Malformed(r.pass)
         THEN /\ workers' = [workers EXCEPT ![w] = [on EXCEPT !.pc = "finally",
                                                               !.pass = 0, !.idx = 0]]
              /\ idleQ' = idleQ
         ELSE IF r.idx = 0
         THEN /\ workers' = [workers EXCEPT ![w] = IF Len(calls) = 0 THEN NextPass(on)
                                                  ELSE [on EXCEPT !.idx = 1]]
              /\ idleQ' = idleQ
         ELSE /\ idleQ' = Append(idleQ, [tag |-> calls[r.idx].tag,
                                         start |-> calls[r.idx].start,
                                         end |-> calls[r.idx].end,
                                         scan |-> w])
              /\ workers' = [workers EXCEPT ![w] = IF r.idx < Len(calls)
                                                  THEN [on EXCEPT !.idx = @ + 1]
                                                  ELSE NextPass(on)]
  /\ UNCHANGED <<appVars, patterns, searchVars, text, tags, tkModified, events, bindings, current_file,
                 file_type, is_highlighting, stop_highlighting, highlight_thread,
                 highlight_timer, timers, mainPc, hist>>

\* _highlight_pattern (lines 428-450) for pass workers[w].pass.  idx = 0 is the
\* check on entry; idx = n is the n-th turn of the loop: the check, then the
\* after_idle call for the n-th match.  A malformed pattern makes re.finditer
\* raise re.error, which line 449 catches: the pass schedules nothing.
WorkerPass(w) ==
  /\ workers[w].pc = "pass"
  /\ LET r == workers[w]
         calls == IF Malformed(r.pass) THEN <<>> ELSE PassCalls(r.content, r.pass)
         on == [r EXCEPT !.ranOn = @ \/ r.preempted]
     IN  IF stop_highlighting
         THEN /\ workers' = [workers EXCEPT ![w] = NextPass(r)]
              /\ idleQ' = idleQ
         ELSE IF r.idx = 0
         THEN /\ workers' = [workers EXCEPT ![w] = IF Len(calls) = 0 THEN NextPass(on)
                                                  ELSE [on EXCEPT !.idx = 1]]
              /\ idleQ' = idleQ
         ELSE /\ idleQ' = Append(idleQ, [tag |-> calls[r.idx].tag,
                                         start |-> calls[r.idx].start,
                                         end |-> calls[r.idx].end,
                                         scan |-> w])
              /\ workers' = [workers EXCEPT ![w] = IF r.idx < Len(calls)
                                                  THEN [on EXCEPT !.idx = @ + 1]
                                                  ELSE NextPass(on)]
  /\ UNCHANGED <<appVars, patterns, searchVars, text, tags, tkModified, events, bindings, current_file, file_type,
                 is_highlighting, stop_highlighting, highlight_thread, highlight_timer,
                 timers, mainPc, hist>>

\* a worker whose end leaves is_highlighting as it is
WorkerFinallyLeavesFlag(w) ==
  /\ workers[w].pc = "finally"
  /\ workers' = [workers EXCEPT ![w].pc = "done"]
  /\ UNCHANGED <<appVars, patterns, searchVars, text, tags, tkModified, events, bindings, current_file, file_type,
                 is_highlighting, stop_highlighting, highlight_thread, highlight_timer, timers,
                 idleQ, mainPc, hist>>

\* line 276: finally: self.is_highlighting = False
WorkerFinally(w) ==
  /\ workers[w].pc = "finally"
  /\ is_highlighting' = FALSE
  /\ workers' = [workers EXCEPT ![w].pc = "done"]
  /\ UNCHANGED <<appVars, patterns, searchVars, text, tags, tkModified, events, bindings, current_file, file_type,
                 stop_highlighting, highlight_thread, highlight_timer, timers, idleQ,
                 mainPc, hist>>

vars ==
  <<text, tags, tkModified, events, bindings, current_file, file_type, is_highlighting,
    stop_highlighting, highlight_thread, highlight_timer, timers, idleQ, workers,
    mainPc, hist, insert, case_sensitive, whole_words, use_regex, wrap_around,
    last_search, dialogs, frame, patterns, appVars>>

\* Tk text indices as the search engine writes them: "line.col", with the
\* "+Nc" or "-Nc" it appends kept in plus.
Idx(l, c) == [line |-> l, col |-> c, plus |-> 0]

\* no search operation has been called
NoCall ==
  [op |-> "none", pc |-> "idle", search_term |-> <<>>, replace_text |-> <<>>,
   start_pos |-> Idx(1, 0), matches |-> <<>>, ret |-> "none",
   \* history: turns of the loop that found a match, calls of _find_next_match,
   \* start_pos one turn ago, where the matcher found each match, the text at the call
   iter |-> 0, attempts |-> 0, prev_start |-> Idx(1, 0), spans |-> <<>>, orig |-> <<>>,
   \* history: where the cursor was at the call, which of matches was selected
   cursor |-> 0, chosen |-> 0]

\* SearchReplace.__init__: the options' defaults, and no dialog shown yet
SearchReplaceInit ==
  /\ case_sensitive = FALSE
  /\ whole_words = FALSE
  /\ use_regex = FALSE
  /\ wrap_around = TRUE
  /\ last_search = <<>>
  /\ dialogs = <<>>
  /\ frame = NoCall

\* The state after EditorWindow.__init__: an empty untitled document.
Init ==
  /\ insert = 0
  /\ SearchReplaceInit
  /\ patterns = PythonPatterns
  /\ AppInit(<<>>, <<>>)
  /\ text = <<>>
  /\ tags = <<>>
  /\ tkModified = FALSE
  /\ events = <<>>
  /\ \E spellchecker_available \in BOOLEAN :
       bindings = BindingsAfterSetup(spellchecker_available)
  /\ current_file = NoPath
  /\ file_type = "None"
  /\ is_highlighting = FALSE
  /\ stop_highlighting = FALSE
  /\ highlight_thread = 0
  /\ highlight_timer = 0
  /\ timers = {}
  /\ idleQ = <<>>
  /\ workers = [w \in 1..MaxScans |-> NewWorker]
  /\ mainPc = "idle"
  /\ hist = [nscans |-> 0, calls |-> 0, edits |-> 0, opens |-> 0, timerSeq |-> 0,
             eventVer |-> 0, burst |-> FALSE, lastFire |-> "none"]

Next ==
  \/ \E path \in Paths, content \in FileContents : OpenFile(path, content)
  \/ \E p \in 0..Len(text), c \in TypedChars : TypeChar(p, c)
  \/ \E p \in 0..(Len(text) - 1) : DeleteChar(p)
  \/ Deliver
  \/ \E t \in timers : TimerFire(t)
  \/ IdleRun
  \/ ToggleHighlighting
  \/ \E language \in {"python", "plain"} : ForceLanguage(language)
  \/ JoinReturn
  \/ \E w \in 1..MaxScans :
       \/ WorkerBegin(w) \/ WorkerGet(w) \/ WorkerClear(w) \/ WorkerDispatch(w)
       \/ WorkerPass(w) \/ WorkerFinally(w)

Spec == Init /\ [][Next]_vars

(***************************************************************************)
(* Properties of the highlighter, checked under Spec.                      *)
(***************************************************************************)
\* the scans that have a tag on some character of the widget
VisibleScans == {x.scan : x \in UNION {tags[i] : i \in DOMAIN tags}}

\* C1: the syntax tags visible in the widget at any time all come from one
\* scan: once a later scan has started, the output of the earlier one is
\* discarded, never shown together with the newer one's.
C1_SingleScanVisible == Cardinality(VisibleScans) <= 1

\* C2: a scan that was cancelled (stop_highlighting was set while its worker
\* ran) contributes nothing: no step adds a tag of a cancelled scan to the
\* widget.
C2_CancelledScanAddsNothing ==
  [][text' = text =>
       \A i \in DOMAIN tags : \A x \in tags'[i] \ tags[i] : ~workers[x.scan].cancelled]_vars

\* C3: a worker that highlight(force=True) preempted sees the flag at its next
\* check and gives up: it never passes a later check that reads False.
C3_PreemptedWorkerStops == \A w \in DOMAIN workers : ~workers[w].ranOn

\* C8: when the latest scan has finished a snapshot of the current document,
\* no worker runs and no idle callback is pending, every syntax tag on the
\* widget is that scan's; none is left from an earlier scan.
C8_NoStaleTagsAfterScan ==
  LET last == hist.nscans
  IN  ( /\ last > 0
        /\ workers[last].pc = "done"
        /\ workers[last].content = text
        /\ workers[last].ver = hist.edits
        /\ \A w \in DOMAIN workers : ~Alive(w)
        /\ mainPc = "idle"
        /\ idleQ = <<>> )
      => VisibleScans \subseteq {last}

\* C9: after a text-change event on a highlightable document a scan of the
\* edited text is on its way: unless some scan has read the text since the
\* edit, the quiet-period timer is pending, or a worker is about to read the
\* text, or the events of the key stroke are still to be delivered.
C9_EditLeadsToRescan ==
  ( /\ hist.eventVer > 0
    /\ Highlightable(file_type)
    /\ \A w \in DOMAIN workers : workers[w].ver < hist.eventVer )
  => \/ events # <<>>
     \/ timers # {}
     \/ mainPc = "join"
     \/ \E w \in DOMAIN workers : workers[w].pc \in {"begin", "get"}

\* C10: a burst of text-change events is coalesced: once its events are
\* delivered exactly one highlight timer is pending, the one the last event
\* scheduled with the 500 ms delay, and when that timer fires on a
\* highlightable document the burst gets its one rescan.
C10_BurstCoalesced ==
  /\ Cardinality(timers) <= 1
  /\ (hist.burst /\ events = <<>>) => timers = {highlight_timer}
  /\ hist.lastFire # "skipped"

\* the step is one of worker w's own: its position moves on
WorkerStepped(w) == workers[w].pc \notin {"unborn", "done"} /\ workers'[w].pc # workers[w].pc

\* the step leaves the text, the cursor and the widget's modified flag alone
\* and changes no tag other than syntax tags
OnlySyntaxTagsChange ==
  /\ text' = text
  /\ insert' = insert
  /\ tkModified' = tkModified
  /\ \A i \in DOMAIN tags :
       \A x \in (tags[i] \ tags'[i]) \cup (tags'[i] \ tags[i]) : x.tag \in SyntaxTags

\* C22: a scan never changes the document text.  A worker's snapshot is
\* written only by its one read of the text at the start of the scan, every
\* callback it schedules is a span computed from that snapshot, and its steps
\* and its callbacks change nothing of the widget but syntax tags.
C22_ScanOnlyTags ==
  [][ /\ \A w \in DOMAIN workers :
           /\ WorkerStepped(w) => OnlySyntaxTagsChange
           /\ workers'[w].content # workers[w].content
                => workers[w].pc = "get" /\ workers'[w].content = text
           /\ (WorkerStepped(w) /\ idleQ' # idleQ)
                => \E n \in DOMAIN PassCalls(workers[w].content, workers[w].pass) :
                     LET call == PassCalls(workers[w].content, workers[w].pass)[n]
                     IN  idleQ' = Append(idleQ, [tag |-> call.tag, start |-> call.start,
                                                 end |-> call.end, scan |-> w])
      /\ Len(idleQ') < Len(idleQ) => OnlySyntaxTagsChange ]_vars

\* a scan has ended whose snapshot is not the text any more (the text was
\* edited after the worker read it), and a span of it is on the widget
C22_Witness ==
  \E w \in DOMAIN workers :
    /\ workers[w].pc = "done"
    /\ workers[w].content = <<"#", " ">>
    /\ text # workers[w].content
    /\ w \in VisibleScans

\* C23: highlight() without force never leads to two workers scanning at the
\* same time: of two workers that are both started and not finished, the
\* earlier one was preempted by a highlight(force=True).
C23_NoSecondWorkerUnforced ==
  \A w1, w2 \in DOMAIN workers :
    (w1 < w2 /\ Alive(w1) /\ Alive(w2)) => workers[w1].preempted

(***************************************************************************)
(* One scan of one Python document: the state right after open_file has    *)
(* loaded the document from a .py file and its <<Modified>> event has been *)
(* delivered, then the worker's steps and the main loop's idle callbacks.  *)
(***************************************************************************)
\* length of the scanned document
MaxDocLen == 4

\* the characters of the scanned documents
ScanChars == {"\"", "#", "i", "f", "d", "\n"}

\* all strings over S of length at most n
SeqsUpTo(S, n) == UNION {[1..k -> S] : k \in 0..n}

\* a Python file just opened, its first scan started, with the pattern table
ScanStart(table) ==
  /\ patterns = table
  /\ text \in SeqsUpTo(ScanChars, MaxDocLen)
  /\ tags = NoTags(text)
  /\ insert = Len(text)
  /\ tkModified = TRUE
  /\ events = <<>>
  /\ bindings = BindingsAfterSetup(TRUE)
  /\ current_file = [root |-> "b", ext |-> ".py"]
  /\ file_type = SetFileType(current_file)
  /\ is_highlighting = FALSE
  /\ stop_highlighting = FALSE
  /\ highlight_thread = 1
  /\ highlight_timer = 0
  /\ timers = {}
  /\ idleQ = <<>>
  /\ workers = [w \in 1..MaxScans |-> IF w = 1 THEN [NewWorker EXCEPT !.pc = "begin"]
                                      ELSE NewWorker]
  /\ mainPc = "idle"
  /\ hist = [nscans |-> 1, calls |-> 0, edits |-> 0, opens |-> 1, timerSeq |-> 0,
             eventVer |-> 0, burst |-> FALSE, lastFire |-> "none"]
  /\ SearchReplaceInit
  /\ AppInit(<<current_file>>, text)

ScanInit == ScanStart(PythonPatterns)

ScanNext ==
  \/ WorkerBegin(1)
  \/ WorkerGet(1)
  \/ WorkerClear(1)
  \/ WorkerDispatch(1)
  \/ WorkerPass(1)
  \/ WorkerFinally(1)
  \/ IdleRun

ScanSpec == ScanInit /\ [][ScanNext]_vars

(***************************************************************************)
(* Properties of one scan, checked under ScanSpec.                         *)
(***************************************************************************)
\* C7: in a Python document no character inside a string or comment span
\* carries a keyword or builtin tag: the string and comment passes take
\* precedence over the keyword and builtin passes.
C7_NoKeywordInsideStringOrComment ==
  \A i \in DOMAIN tags :
    ~ \E x, y \in tags[i] :
        /\ x.tag \in {"syntax_string", "syntax_comment"}
        /\ y.tag \in {"syntax_keyword", "syntax_builtin"}

\* no pattern and no word list of the Python definition matches in content
NoCategoryMatches(content) == \A k \in 1..NumPasses : PassCalls(content, k) = <<>>

\* C21: a scan of an empty document, or of one in which no category matches,
\* emits no span (no callback is ever queued, no tag ever set) and ends, by
\* the worker's normal exit, with is_highlighting False.
C21_QuietScan ==
  NoCategoryMatches(text)
    => /\ idleQ = <<>>
       /\ tags = NoTags(text)
       /\ workers[1].pc \in {"begin", "get", "clear", "dispatch", "pass", "finally", "done"}
       /\ workers[1].pc = "done" => ~is_highlighting

\* the scan of a document with text but no match has run all its passes
C21_Witness ==
  /\ ~IsBlank(text)
  /\ NoCategoryMatches(text)
  /\ workers[1].pc = "done"
  /\ ~is_highlighting

(***************************************************************************)
(* The search engine (features/search_replace.py).                         *)
(*                                                                         *)
(* A search term is a sequence of tokens: a character, or the two          *)
(* characters backslash-n, which a regex reads as a newline.               *)
(***************************************************************************)
\* length of the searched document
MaxSearchDoc == 3

\* tokens in a search term
MaxTermLen == 2

\* turns of the loop of _find_all_matches followed in one call
MaxIter == 5

\* the characters of the searched documents
DocChars == {"a", "A", "b", "*", "\n"}

\* a document of three words, and the word searched in it
FooBarFoo == <<"f", "o", "o", " ", "B", "A", "R", " ", "f", "o", "o">>

Foo == <<"f", "o", "o">>

\* the tokens of the search terms
TermTokens == {"a", "*", "\\n"}

\* the replacement texts
ReplaceTexts == { <<>>, <<"a", "\n">> }

\* the string the user typed: a sequence of characters
RECURSIVE TermText(_)
TermText(term) ==
  IF term = <<>> THEN <<>>
  ELSE (IF term[1] = "\\n" THEN <<"\\", "n">> ELSE <<term[1]>>) \o TermText(Tail(term))

\* str.lower() of one character
PyLower(c) == CASE c = "A" -> "a" [] c = "B" -> "b" [] c = "R" -> "r" [] OTHER -> c

\* equality of characters under -nocase and re.IGNORECASE
SameChar(c, d, nocase) == IF nocase THEN PyLower(c) = PyLower(d) ELSE c = d

\* f"{idx}+{n}c", and f"{idx}-1c" for n = -1
PlusChars(idx, n) == [idx EXCEPT !.plus = @ + n]

\* the index 'end': the start of the line after Tk's final newline
EndIdx(doc) == Idx(Cardinality(NewlineOffsets(WidgetText(doc))) + 1, 0)

\* the offset a search index stands for in the widget; "+Nc" and "-Nc" stop
\* at the end and at the start of the text
TkResolve(doc, idx) == Max(0, Min(TkOffset(doc, idx) + idx.plus, Len(doc) + 1))

\* text_widget.index(i): the "line.col" of an offset
TkIndex(doc, off) ==
  LET w == WidgetText(doc)
  IN  Idx(PyCount(PySlice(w, 0, off), "\n") + 1, off - (PyRFind(w, "\n", 0, off) + 1))

\* text_widget.get(i1, i2)
TkGet(doc, i1, i2) == PySlice(WidgetText(doc), TkResolve(doc, i1), TkResolve(doc, i2))

\* text_widget.compare(i1, ">=", i2)
TkCompareGe(doc, i1, i2) == TkResolve(doc, i1) >= TkResolve(doc, i2)

\* text_widget.compare(i1, "<", i2)
TkCompareLt(doc, i1, i2) == TkResolve(doc, i1) < TkResolve(doc, i2)

\* text_widget.search(chars, start, stopindex='end'[, nocase]): the offset of
\* the first occurrence at or after start, or -1 for the empty string
TkSearch(doc, chars, start, nocase) ==
  LET w    == WidgetText(doc)
      from == TkResolve(doc, start)
      hits == {i \in from..(Len(w) - Len(chars)) :
                 \A k \in 1..Len(chars) : SameChar(w[i + k], chars[k], nocase)}
  IN  IF chars = <<>> \/ hits = {} THEN -1 ELSE SetMin(hits)

(***************************************************************************)
(* Python's re on the terms: an atom is a character or \n, a "*" after an  *)
(* atom repeats it greedily.                                               *)
(***************************************************************************)
\* re.compile(pattern) raises re.error: nothing to repeat, multiple repeat
RegexError(pattern) ==
  \E i \in 1..Len(pattern) : pattern[i] = "*" /\ (i = 1 \/ pattern[i - 1] = "*")

RECURSIVE Atoms(_)
Atoms(pattern) ==
  IF pattern = <<>> THEN <<>>
  ELSE LET c == IF pattern[1] = "\\n" THEN "\n" ELSE pattern[1]
       IN  IF Len(pattern) >= 2 /\ pattern[2] = "*"
           THEN <<[ch |-> c, star |-> TRUE]>> \o Atoms(SubSeq(pattern, 3, Len(pattern)))
           ELSE <<[ch |-> c, star |-> FALSE]>> \o Atoms(Tail(pattern))

\* the end of the match of atoms[k..] at offset pos of t that backtracking
\* finds first, or -1
RECURSIVE MatchFrom(_, _, _, _, _)
MatchFrom(atoms, k, t, pos, nocase) ==
  IF k > Len(atoms) THEN pos
  ELSE LET a == atoms[k]
           same(i) == i < Len(t) /\ SameChar(Ch(t, i), a.ch, nocase)
       IN  IF ~a.star
           THEN IF same(pos) THEN MatchFrom(atoms, k + 1, t, pos + 1, nocase) ELSE -1
           ELSE LET run == {n \in 0..(Len(t) - pos) : \A j \in 0..(n - 1) : same(pos + j)}
                    ok  == {n \in run : MatchFrom(atoms, k + 1, t, pos + n, nocase) # -1}
                IN  IF ok = {} THEN -1
                    ELSE MatchFrom(atoms, k + 1, t, pos + SetMax(ok), nocase)

\* compiled_pattern.search(t): the leftmost match, as match.start() and match.end()
ReSearch(pattern, t, nocase) ==
  LET atoms == Atoms(pattern)
      ok    == {i \in 0..Len(t) : MatchFrom(atoms, 1, t, i, nocase) # -1}
  IN  IF ok = {} THEN NoMatch
      ELSE Whole(SetMin(ok), MatchFrom(atoms, 1, t, SetMin(ok), nocase))

(***************************************************************************)
(* The matchers of SearchReplace.  o holds the dialog's options; a match   *)
(* position is the pair <<start, end>> of indices, None is <<>>.           *)
(***************************************************************************)
None == <<>>

\* SearchReplace._is_whole_word, lines 446 and 454, on the characters it got
NotInWord(char_before, char_after) ==
  /\ ~(char_before # <<>> /\ IsWord(char_before[1]))
  /\ ~(char_after # <<>> /\ IsWord(char_after[1]))

\* _is_whole_word without its check of the character after the match
IsWholeWordBeforeOnly(doc, start_pos, end_pos) ==
  NotInWord(TkGet(doc, PlusChars(start_pos, -1), start_pos), <<>>)

\* SearchReplace._is_whole_word; the TclError branches are never taken, Tk
\* stops "-1c" and "+1c" at the ends of the text
IsWholeWord(doc, start_pos, end_pos) ==
  NotInWord(TkGet(doc, PlusChars(start_pos, -1), start_pos),
            TkGet(doc, end_pos, PlusChars(end_pos, 1)))

\* SearchReplace._regex_search, lines 390-414: the indices of the match m
\* found in t, the text from start_pos on
RegexPos(t, m, start_pos) ==
  LET start_line   == start_pos.line
      start_col    == start_pos.col
      match_start  == m.s
      match_end    == m.e
      lines_before == PyCount(PySlice(t, 0, match_start), "\n")
      last_newline == PyRFind(t, "\n", 0, match_start)
      col_start    == match_start - last_newline - 1
      lines_in_match == PyCount(PySlice(t, match_start, match_end), "\n")
      last_newline_in_match == PyRFind(t, "\n", match_start, match_end)
      col_end      == match_end - last_newline_in_match - 1
      abs_start    == IF lines_before = 0
                      THEN Idx(start_line, start_col + match_start)
                      ELSE Idx(start_line + lines_before, col_start)
      abs_end      == IF lines_before = 0
                      THEN Idx(start_line, start_col + match_end)
                      ELSE IF lines_in_match = 0
                      THEN Idx(start_line + lines_before, col_start + match_end - match_start)
                      ELSE Idx(start_line + lines_before + lines_in_match, col_end)
  IN  IF m = NoMatch THEN None ELSE <<abs_start, abs_end>>

\* compiled_pattern.search(t) of _regex_search, lines 384-389
RegexMatch(t, o, pattern) == ReSearch(pattern, t, ~o.case_sensitive)

\* SearchReplace._regex_search for a pattern that compiles; start_pos is a
\* plain "line.col" there
RegexSearch(doc, o, pattern, start_pos) ==
  RegexPos(TkGet(doc, start_pos, EndIdx(doc)),
           RegexMatch(TkGet(doc, start_pos, EndIdx(doc)), o, pattern), start_pos)

\* SearchReplace._find_next_match and SearchReplace._text_search, which calls
\* it again after a match that is not a whole word.  A pattern that does not
\* compile gives None (the error dialog is the caller's FindNextError).
RECURSIVE FindNextMatch(_, _, _, _)
\* _text_search, lines 363-375, with the offset off that the widget's search gave
TextSearchAt(doc, o, search_term, off) ==
  LET pos     == TkIndex(doc, off)
      end_pos == PlusChars(pos, Len(TermText(search_term)))
  IN  IF off = -1 THEN None
      ELSE IF o.whole_words /\ ~IsWholeWord(doc, pos, end_pos)
      THEN FindNextMatch(doc, o, search_term, PlusChars(pos, 1))
      ELSE <<pos, end_pos>>

TextSearch(doc, o, search_term, start_pos) ==
  TextSearchAt(doc, o, search_term,
               TkSearch(doc, TermText(search_term), start_pos, ~o.case_sensitive))

FindNextMatch(doc, o, search_term, start_pos) ==
  IF o.use_regex
  THEN IF RegexError(search_term) THEN None
       ELSE RegexSearch(doc, o, search_term, start_pos)
  ELSE TextSearch(doc, o, search_term, start_pos)

\* _find_next_match shows the "Regular Expression Error" box
FindNextError(o, search_term) == o.use_regex /\ RegexError(search_term)

\* a span of the widget text moved by from
Shifted(m, from) == [s |-> from + m.s, e |-> from + m.e]

\* where the matcher found the match that FindNextMatch reports from start_pos:
\* its offsets in the widget text
RECURSIVE MatchExtent(_, _, _, _)
TextExtentAt(doc, o, search_term, off) ==
  LET pos     == TkIndex(doc, off)
      end_pos == PlusChars(pos, Len(TermText(search_term)))
  IN  IF o.whole_words /\ ~IsWholeWord(doc, pos, end_pos)
      THEN MatchExtent(doc, o, search_term, PlusChars(pos, 1))
      ELSE [s |-> off, e |-> off + Len(TermText(search_term))]

MatchExtent(doc, o, search_term, start_pos) ==
  IF o.use_regex
  THEN Shifted(RegexMatch(TkGet(doc, start_pos, EndIdx(doc)), o, search_term),
               TkResolve(doc, start_pos))
  ELSE TextExtentAt(doc, o, search_term,
                    TkSearch(doc, TermText(search_term), start_pos, ~o.case_sensitive))

\* the options as the dialog's variables hold them
Options ==
  [case_sensitive |-> case_sensitive, whole_words |-> whole_words,
   use_regex |-> use_regex, wrap_around |-> wrap_around]

AllOptions ==
  [case_sensitive : BOOLEAN, whole_words : BOOLEAN, use_regex : BOOLEAN,
   wrap_around : BOOLEAN]

(***************************************************************************)
(* The widget calls the search engine makes.  The tags 'sel',              *)
(* 'search_highlight' and 'current_match' are kept with scan 0.            *)
(***************************************************************************)
\* text_widget.tag_remove(t, '1.0', 'end') for every t of names
TagRemove(tg, names) == [i \in DOMAIN tg |-> {x \in tg[i] : x.tag \notin names}]

\* text_widget.tag_add(tag, i1, i2)
TagAddRange(doc, tg, tag, i1, i2) ==
  LET o1 == TkResolve(doc, i1)
      o2 == TkResolve(doc, i2)
  IN  [i \in DOMAIN tg |->
         IF o1 <= i - 1 /\ i - 1 < o2 THEN tg[i] \cup {[tag |-> tag, scan |-> 0]}
         ELSE tg[i]]

\* SearchReplace._clear_highlights
ClearHighlights(tg) == TagRemove(tg, {"search_highlight", "current_match"})

\* text_widget.mark_set(INSERT, i): the mark stays before Tk's final newline
MarkSet(doc, i) == Min(TkResolve(doc, i), Len(doc))

\* SearchReplace._select_match: the tags it leaves
SelectMatch(doc, tg, match_pos) ==
  LET cleared == ClearHighlights(TagRemove(tg, {"sel"}))
      sel     == TagAddRange(doc, cleared, "sel", match_pos[1], match_pos[2])
  IN  TagAddRange(doc, sel, "current_match", match_pos[1], match_pos[2])

\* the offset of index 'sel.last', or -1 when nothing is selected (TclError)
SelLast(tg) ==
  LET on == {i \in DOMAIN tg : \E x \in tg[i] : x.tag = "sel"}
  IN  IF on = {} THEN -1 ELSE SetMax(on)

\* text_widget.delete(i1, i2) on st = [doc, tg, ins, mod].  A range that
\* runs to 'end' keeps Tk's final newline: it stops before it, and when it
\* starts at the start of a line it takes the newline before that line.
TkDelete(st, i1, i2) ==
  LET w  == WidgetText(st.doc)
      r1 == TkResolve(st.doc, i1)
      r2 == TkResolve(st.doc, i2)
      toEnd == r2 = Len(w)
      o2 == IF toEnd THEN r2 - 1 ELSE r2
      o1 == IF toEnd /\ r1 > 0 /\ Ch(w, r1 - 1) = "\n" THEN r1 - 1 ELSE r1
      cut(s) == SubSeq(s, 1, o1) \o SubSeq(s, o2 + 1, Len(s))
  IN  IF r1 >= r2 \/ o1 >= o2 THEN st
      ELSE [doc |-> cut(st.doc), tg |-> cut(st.tg),
            ins |-> IF st.ins >= o2 THEN st.ins - (o2 - o1)
                    ELSE IF st.ins > o1 THEN o1 ELSE st.ins,
            mod |-> TRUE]

\* text_widget.insert(i, chars) on st: 'end' inserts before the final newline,
\* the new characters get the tags their two neighbours share, and the INSERT
\* mark, of right gravity, moves with an insertion at it
TkInsert(st, i, chars) ==
  LET p   == Min(TkResolve(st.doc, i), Len(st.doc))
      new == IF p >= 1 /\ p < Len(st.doc) THEN st.tg[p] \cap st.tg[p + 1] ELSE {}
  IN  IF chars = <<>> THEN st
      ELSE [doc |-> SubSeq(st.doc, 1, p) \o chars \o SubSeq(st.doc, p + 1, Len(st.doc)),
            tg  |-> SubSeq(st.tg, 1, p) \o [k \in 1..Len(chars) |-> new]
                      \o SubSeq(st.tg, p + 1, Len(st.tg)),
            ins |-> IF st.ins >= p THEN st.ins + Len(chars) ELSE st.ins,
            mod |-> TRUE]

\* _replace_all, lines 533-535: for start, end in reversed(matches[1..k])
RECURSIVE ReplaceReversed(_, _, _, _)
ReplaceReversed(st, matches, k, replace_text) ==
  IF k = 0 THEN st
  ELSE ReplaceReversed(
         TkInsert(TkDelete(st, matches[k][1], matches[k][2]), matches[k][1], replace_text),
         matches, k - 1, replace_text)

(***************************************************************************)
(* The operations of SearchReplace.  The user sets the dialog's options    *)
(* and presses a button; the handler runs on the main thread.              *)
(***************************************************************************)
\* the editor's state that the search engine does not touch
hlVars ==
  <<bindings, current_file, file_type, is_highlighting, stop_highlighting,
    highlight_thread, highlight_timer, timers, idleQ, workers, mainPc, hist, patterns,
    config, disk, saveVars, winVars>>

\* no search operation has been called yet
NotCalled == frame.op = "none"

SetOptions(o) ==
  /\ case_sensitive' = o.case_sensitive
  /\ whole_words' = o.whole_words
  /\ use_regex' = o.use_regex
  /\ wrap_around' = o.wrap_around

\* messagebox.showerror("Regular Expression Error", ...) n times
ErrorBoxes(n) == [k \in 1..n |-> "showerror Regular Expression Error"]

\* SearchReplace._search_forward, lines 286-297: what it does with the match
\* it ends with, after attempts calls of _find_next_match
SearchForwardEnd(search_term, cursor, o, start_pos, attempts, match_pos) ==
  /\ last_search' = search_term
  /\ dialogs' = dialogs \o ErrorBoxes(IF FindNextError(o, search_term) THEN attempts ELSE 0)
                  \o (IF match_pos = None THEN <<"showinfo Find: not found">> ELSE <<>>)
  /\ tags' = IF match_pos # None THEN SelectMatch(text, tags, match_pos) ELSE tags
  /\ insert' = IF match_pos # None THEN MarkSet(text, match_pos[1]) ELSE cursor
  /\ frame' = [NoCall EXCEPT !.op = "find_next", !.pc = "done",
                             !.search_term = search_term,
                             !.start_pos = start_pos,
                             !.matches = IF match_pos # None THEN <<match_pos>> ELSE <<>>,
                             !.ret = IF match_pos # None THEN "True" ELSE "False",
                             !.attempts = attempts,
                             !.chosen = IF match_pos # None THEN 1 ELSE 0,
                             !.cursor = cursor,
                             !.orig = text]

\* _search_forward without its wrap-around branch
SearchForwardNoWrap(search_term, cursor, o, start_pos, first, second) ==
  SearchForwardEnd(search_term, cursor, o, start_pos, 1, first)

\* SearchReplace._search_forward, lines 283-294: first is the match from
\* start_pos, second the one from "1.0", looked for when first is None and
\* wrap_around is set
SearchForward(search_term, cursor, o, start_pos, first, second) ==
  SearchForwardEnd(search_term, cursor, o, start_pos,
                   IF first = None /\ o.wrap_around THEN 2 ELSE 1,
                   IF first # None THEN first
                   ELSE IF o.wrap_around /\ second # None
                           /\ TkCompareLt(text, second[1], start_pos)
                   THEN second
                   ELSE None)

\* _search_forward, lines 273-281: the cursor, or the end of the selection
StartPos(cursor) ==
  IF SelLast(tags) # -1 THEN TkIndex(text, SelLast(tags)) ELSE TkIndex(text, cursor)

\* SearchReplace.find_next(search_term) with the cursor put at offset cursor:
\* find_next and _search_forward
FindNext(search_term, cursor, o) ==
  /\ mainPc = "idle"
  /\ NotCalled
  /\ SetOptions(o)
  /\ IF search_term = <<>>
     THEN /\ dialogs' = Append(dialogs, "show_find_dialog")
          /\ frame' = [NoCall EXCEPT !.op = "find_next", !.pc = "done", !.ret = "False",
                                     !.cursor = cursor, !.orig = text]
          /\ insert' = cursor
          /\ UNCHANGED <<tags, last_search>>
     ELSE SearchForward(search_term, cursor, o, StartPos(cursor),
                        FindNextMatch(text, o, search_term, StartPos(cursor)),
                        FindNextMatch(text, o, search_term, Idx(1, 0)))
  /\ UNCHANGED <<text, tkModified, events, hlVars, is_modified>>

\* SearchReplace.find_previous(search_term) with the cursor put at offset
\* cursor: find_previous and _search_backward, lines 299-314, up to the loop
\* of _find_all_matches
FindPrevious(search_term, cursor, o) ==
  /\ mainPc = "idle"
  /\ NotCalled
  /\ SetOptions(o)
  /\ insert' = cursor
  /\ IF search_term = <<>>
     THEN /\ dialogs' = Append(dialogs, "show_find_dialog")
          /\ frame' = [NoCall EXCEPT !.op = "find_previous", !.pc = "done", !.ret = "False",
                                     !.cursor = cursor, !.orig = text]
          /\ last_search' = last_search
     ELSE /\ dialogs' = dialogs
          /\ frame' = [NoCall EXCEPT !.op = "find_previous", !.pc = "loop",
                                     !.search_term = search_term,
                                     !.cursor = cursor, !.orig = text]
          /\ last_search' = search_term
  /\ UNCHANGED <<text, tags, tkModified, events, hlVars, is_modified>>

\* SearchReplace._search_backward, lines 302-336: after _find_all_matches has
\* returned.  start_pos is the cursor, or the start of the selection.
SearchBackwardEnd ==
  /\ frame.pc = "found"
  /\ frame.op = "find_previous"
  /\ LET selected    == {i \in DOMAIN tags : \E x \in tags[i] : x.tag = "sel"}
         start_pos   == IF selected # {} THEN TkIndex(text, SetMin(selected) - 1)
                        ELSE TkIndex(text, insert)
         all_matches == frame.matches
         previous_matches == {k \in DOMAIN all_matches :
                                TkCompareLt(text, all_matches[k][1], start_pos)}
         k == IF previous_matches # {} THEN SetMax(previous_matches)
              ELSE IF /\ wrap_around
                      /\ all_matches # <<>>
                      /\ TkResolve(text, all_matches[Len(all_matches)][1])
                           > TkResolve(text, start_pos)
              THEN Len(all_matches)
              ELSE 0
     IN  /\ tags' = IF k # 0 THEN SelectMatch(text, tags, all_matches[k]) ELSE tags
         /\ insert' = IF k # 0 THEN MarkSet(text, all_matches[k][1]) ELSE insert
         /\ dialogs' = IF k = 0 THEN Append(dialogs, "showinfo Find: not found") ELSE dialogs
         /\ frame' = [frame EXCEPT !.pc = "done", !.chosen = k,
                                   !.ret = IF k # 0 THEN "True" ELSE "False"]
  /\ UNCHANGED <<text, tkModified, events, case_sensitive, whole_words, use_regex,
                 wrap_around, last_search, hlVars, is_modified>>

\* SearchReplace.find_all(search_term), lines 238-250: up to the loop of
\* _find_all_matches
FindAll(search_term, o) ==
  /\ mainPc = "idle"
  /\ NotCalled
  /\ SetOptions(o)
  /\ IF search_term = <<>>
     THEN /\ frame' = [NoCall EXCEPT !.op = "find_all", !.pc = "done", !.ret = "[]",
                                     !.orig = text]
          /\ tags' = tags
     ELSE /\ frame' = [NoCall EXCEPT !.op = "find_all", !.pc = "loop",
                                     !.search_term = search_term, !.orig = text]
          /\ tags' = ClearHighlights(tags)
  /\ UNCHANGED <<text, tkModified, events, insert, last_search, dialogs, hlVars, is_modified>>

\* SearchReplace._replace_all, lines 505-515: up to the loop of _find_all_matches
ReplaceAll(find_text, replace_text, o) ==
  /\ mainPc = "idle"
  /\ NotCalled
  /\ SetOptions(o)
  /\ IF find_text = <<>>
     THEN /\ frame' = [NoCall EXCEPT !.op = "replace_all", !.pc = "done", !.orig = text]
          /\ dialogs' = Append(dialogs, "showwarning Replace All: no search term")
     ELSE /\ frame' = [NoCall EXCEPT !.op = "replace_all", !.pc = "loop",
                                     !.search_term = find_text,
                                     !.replace_text = replace_text, !.orig = text]
          /\ dialogs' = dialogs
  /\ UNCHANGED <<text, tags, tkModified, events, insert, last_search, hlVars, is_modified>>

\* _find_all_matches going on one character after the start of the match
\* instead of at its end
FindAllMatchesTurnFromStart(match_pos) ==
  IF match_pos = None
  THEN [frame EXCEPT !.pc = "found", !.attempts = @ + 1]
  ELSE [frame EXCEPT
          !.matches = Append(@, match_pos),
          !.spans = Append(@, MatchExtent(text, Options, frame.search_term,
                                          frame.start_pos)),
          !.prev_start = frame.start_pos,
          !.start_pos = PlusChars(match_pos[1], 1),
          !.iter = @ + 1,
          !.attempts = @ + 1,
          !.pc = IF TkCompareGe(text, PlusChars(match_pos[1], 1), EndIdx(text))
                 THEN "found" ELSE "loop"]

\* _find_all_matches, lines 428-436: the turn's end, with the match it found
FindAllMatchesTurn(match_pos) ==
  IF match_pos = None
  THEN [frame EXCEPT !.pc = "found", !.attempts = @ + 1]
  ELSE [frame EXCEPT
          !.matches = Append(@, match_pos),
          !.spans = Append(@, MatchExtent(text, Options, frame.search_term,
                                          frame.start_pos)),
          !.prev_start = frame.start_pos,
          !.start_pos = match_pos[2],
          !.iter = @ + 1,
          !.attempts = @ + 1,
          !.pc = IF TkCompareGe(text, match_pos[2], EndIdx(text)) THEN "found" ELSE "loop"]

\* One turn of the while loop of SearchReplace._find_all_matches
FindAllMatches ==
  /\ frame.pc = "loop"
  /\ frame.iter < MaxIter
  /\ dialogs' = dialogs \o ErrorBoxes(IF FindNextError(Options, frame.search_term)
                                      THEN 1 ELSE 0)
  /\ frame' = FindAllMatchesTurn(FindNextMatch(text, Options, frame.search_term,
                                               frame.start_pos))
  /\ UNCHANGED <<text, tags, tkModified, events, insert, case_sensitive, whole_words,
                 use_regex, wrap_around, last_search, hlVars, is_modified>>

\* find_all, lines 253-254: tag_add("search_highlight", ...) for matches[1..k]
RECURSIVE HighlightMatches(_, _, _, _)
HighlightMatches(doc, tg, matches, k) ==
  IF k = 0 THEN tg
  ELSE TagAddRange(doc, HighlightMatches(doc, tg, matches, k - 1), "search_highlight",
                   matches[k][1], matches[k][2])

\* SearchReplace.find_all, lines 252-266: after _find_all_matches has returned
FindAllEnd ==
  /\ frame.pc = "found"
  /\ frame.op = "find_all"
  /\ tags' = HighlightMatches(text, tags, frame.matches, Len(frame.matches))
  /\ insert' = IF frame.matches # <<>> THEN MarkSet(text, frame.matches[1][1]) ELSE insert
  /\ dialogs' = Append(dialogs, IF frame.matches # <<>> THEN "showinfo Find All: found"
                                ELSE "showinfo Find All: no matches")
  /\ frame' = [frame EXCEPT !.pc = "done", !.ret = "matches"]
  /\ UNCHANGED <<text, tkModified, events, case_sensitive, whole_words, use_regex,
                 wrap_around, last_search, hlVars, is_modified>>

\* SearchReplace._replace_all, lines 517-543: after _find_all_matches has
\* returned; result is the user's answer to askyesno
ReplaceAllEnd(result) ==
  /\ frame.pc = "found"
  /\ frame.op = "replace_all"
  /\ IF frame.matches = <<>>
     THEN /\ dialogs' = Append(dialogs, "showinfo Replace All: no matches")
          /\ frame' = [frame EXCEPT !.pc = "done", !.ret = "none"]
          /\ UNCHANGED <<text, tags, tkModified, events, insert, is_modified>>
     ELSE IF ~result
     THEN /\ dialogs' = Append(dialogs, "askyesno Replace All")
          /\ frame' = [frame EXCEPT !.pc = "done", !.ret = "declined"]
          /\ UNCHANGED <<text, tags, tkModified, events, insert, is_modified>>
     ELSE LET st == ReplaceReversed([doc |-> text, tg |-> tags, ins |-> 0, mod |-> FALSE],
                                    frame.matches, Len(frame.matches), frame.replace_text)
          IN  /\ text' = st.doc
              /\ tags' = ClearHighlights(st.tg)
              /\ insert' = st.ins
              /\ tkModified' = (tkModified \/ st.mod)
              /\ events' = IF st.mod THEN Touch(events) ELSE events
              /\ dialogs' = dialogs \o <<"askyesno Replace All",
                                         "showinfo Replace All: replaced">>
              /\ is_modified' = TRUE
              /\ frame' = [frame EXCEPT !.pc = "done", !.ret = "replaced"]
  /\ UNCHANGED <<case_sensitive, whole_words, use_regex, wrap_around, last_search, hlVars>>

\* A document typed into the untitled window, the cursor after it, the find
\* dialog not used yet.
SearchInit ==
  /\ text \in SeqsUpTo(DocChars, MaxSearchDoc) \cup {FooBarFoo}
  /\ tags = NoTags(text)
  /\ insert = Len(text)
  /\ tkModified = (text # <<>>)
  /\ events = <<>>
  /\ bindings = BindingsAfterSetup(TRUE)
  /\ current_file = NoPath
  /\ file_type = "None"
  /\ is_highlighting = FALSE
  /\ stop_highlighting = FALSE
  /\ highlight_thread = 0
  /\ highlight_timer = 0
  /\ timers = {}
  /\ idleQ = <<>>
  /\ workers = [w \in 1..MaxScans |-> NewWorker]
  /\ mainPc = "idle"
  /\ hist = [nscans |-> 0, calls |-> 0, edits |-> 0, opens |-> 0, timerSeq |-> 0,
             eventVer |-> 0, burst |-> FALSE, lastFire |-> "none"]
  /\ patterns = PythonPatterns
  /\ SearchReplaceInit
  /\ AppInit(<<>>, <<>>)

SearchTerms == SeqsUpTo(TermTokens, MaxTermLen) \cup {Foo}

SearchNext ==
  \/ NotCalled /\ \E search_term \in SearchTerms, cursor \in 0..Len(text), o \in AllOptions :
                    FindNext(search_term, cursor, o)
  \/ NotCalled /\ \E search_term \in SearchTerms, cursor \in 0..Len(text), o \in AllOptions :
                    FindPrevious(search_term, cursor, o)
  \/ NotCalled /\ \E search_term \in SearchTerms, o \in AllOptions :
                    FindAll(search_term, o)
  \/ NotCalled /\ \E find_text \in SearchTerms, replace_text \in ReplaceTexts,
                       o \in AllOptions :
                    ReplaceAll(find_text, replace_text, o)
  \/ FindAllMatches
  \/ FindAllEnd
  \/ SearchBackwardEnd
  \/ \E result \in BOOLEAN : ReplaceAllEnd(result)

SearchSpec == SearchInit /\ [][SearchNext]_vars

(***************************************************************************)
(* Properties of the search engine, checked under SearchSpec.              *)
(***************************************************************************)
\* C4: find-all terminates for every document and every term, a regex that
\* matches the empty string included: every turn of its loop that finds a
\* match moves the start position forward by at least one character.
C4_FindAllAdvances ==
  (frame.op = "find_all" /\ frame.iter > 0)
    => TkResolve(text, frame.start_pos) > TkResolve(text, frame.prev_start)

\* orig with every span of spans[k..], from offset pos on, replaced by replace_text
RECURSIVE Replaced(_, _, _, _, _)
Replaced(orig, spans, k, pos, replace_text) ==
  IF k > Len(spans) THEN SubSeq(orig, pos + 1, Len(orig))
  ELSE SubSeq(orig, pos + 1, spans[k].s) \o replace_text
         \o Replaced(orig, spans, k + 1, spans[k].e, replace_text)

\* C5: replace-all leaves the document in which every match span found in the
\* original text is replaced, as if all at once, whatever the length of the
\* replacement text and whether or not it holds newlines.
C5_ReplaceAllSimultaneous ==
  ( /\ frame.op = "replace_all"
    /\ frame.ret = "replaced"
    /\ \A k \in DOMAIN frame.spans : frame.spans[k].e <= Len(frame.orig) )
    => text = Replaced(frame.orig, frame.spans, 1, 0, frame.replace_text)

\* C6: find-next with a regex that does not compile shows the invalid-pattern
\* report exactly once and nothing else: no "not found", no second attempt.
C6_InvalidRegexReportedOnce ==
  ( /\ frame.op = "find_next"
    /\ frame.pc = "done"
    /\ use_regex
    /\ RegexError(frame.search_term) )
    => /\ dialogs = <<"showerror Regular Expression Error">>
       /\ frame.attempts = 1

Occurs(doc, chars, i, nocase) ==
  /\ i + Len(chars) <= Len(doc)
  /\ \A k \in 1..Len(chars) : SameChar(doc[i + k], chars[k], nocase)

\* the offsets where chars occurs in doc with no word character before or
\* after it
WholeWordOccurrences(doc, chars, nocase) ==
  {i \in 0..Len(doc) :
     /\ Occurs(doc, chars, i, nocase)
     /\ i = 0 \/ ~IsWord(doc[i])
     /\ i + Len(chars) = Len(doc) \/ ~IsWord(doc[i + Len(chars) + 1])}

\* the start offsets of the matches find-all has returned
FoundStarts == {TkResolve(text, frame.matches[k][1]) : k \in DOMAIN frame.matches}

\* plain-text find-all with the whole-word option has returned
WholeWordFindAllDone ==
  /\ frame.op = "find_all"
  /\ frame.pc \in {"found", "done"}
  /\ frame.search_term # <<>>
  /\ whole_words
  /\ ~use_regex

\* every returned match is as long as the term, and "foo BAR foo" searched
\* for "foo" gives the matches at offsets 0 and 8
WholeWordSpans ==
  /\ \A k \in DOMAIN frame.matches :
       TkResolve(text, frame.matches[k][2])
         = TkResolve(text, frame.matches[k][1]) + Len(TermText(frame.search_term))
  /\ Len(frame.matches) = Cardinality(FoundStarts)
  /\ (text = FooBarFoo /\ frame.search_term = Foo) => FoundStarts = {0, 8}

C13_FindAllSpansOrdered ==
  (frame.op = "find_all" /\ frame.pc \in {"found", "done"})
    => \A k \in 1..(Len(frame.matches) - 1) :
         /\ TkResolve(text, frame.matches[k][1]) < TkResolve(text, frame.matches[k + 1][1])
         /\ TkResolve(text, frame.matches[k][2]) <= TkResolve(text, frame.matches[k + 1][1])

\* find-all has returned two matches, the second on another line than the first
C13_Witness ==
  /\ frame.op = "find_all"
  /\ frame.pc = "done"
  /\ Len(frame.matches) = 2
  /\ frame.matches[1][1].line # frame.matches[2][1].line

\* the characters the matcher matched for the match that find-next or
\* find-previous selected
FoundExtent ==
  IF frame.op = "find_previous" THEN frame.spans[frame.chosen]
  ELSE MatchExtent(text, Options, frame.search_term,
                   IF frame.attempts = 2 THEN Idx(1, 0) ELSE frame.start_pos)

\* C14: the (start, end) pair the regex search returns denotes exactly the
\* characters of the match, wherever the search started and whether the match
\* is on the start line, on a later line or across newlines.
C14_RegexSpanIsMatch ==
  /\ (frame.op = "find_next" /\ frame.ret = "True" /\ use_regex)
       => /\ TkResolve(text, frame.matches[1][1]) = FoundExtent.s
          /\ TkResolve(text, frame.matches[1][2]) = FoundExtent.e
  /\ (frame.op \in {"find_all", "find_previous", "replace_all"} /\ use_regex)
       => \A k \in DOMAIN frame.matches :
            /\ TkResolve(text, frame.matches[k][1]) = frame.spans[k].s
            /\ TkResolve(text, frame.matches[k][2]) = frame.spans[k].e

\* the offsets of the selected characters
Selection == {i - 1 : i \in {j \in DOMAIN tags : \E x \in tags[j] : x.tag = "sel"}}

\* C15: a find-next or find-previous request that has returned has either
\* found a match (the selection is exactly the matched span, the cursor is at
\* its start, True is returned) or not (False is returned; selection, cursor
\* and document are as they were).
C15_FoundOrNotFound ==
  (frame.op \in {"find_next", "find_previous"} /\ frame.pc = "done")
    => \/ /\ frame.ret = "True"
          /\ Selection = FoundExtent.s..(FoundExtent.e - 1)
          /\ insert = FoundExtent.s
       \/ /\ frame.ret = "False"
          /\ Selection = {}
          /\ insert = frame.cursor
          /\ text = frame.orig

(***************************************************************************)
(* The position mapper, SyntaxHighlighter._get_text_index, called on every *)
(* short document with every offset, offsets past the end included.        *)
(***************************************************************************)
\* length of the mapped documents
MaxMapDoc == 5

\* how far past the end of the document the offsets go
MaxPast == 2

\* the characters of the mapped documents
MapChars == {"a", "\n"}

MapInit ==
  /\ text \in SeqsUpTo(MapChars, MaxMapDoc)
  /\ tags = NoTags(text)
  /\ insert = Len(text)
  /\ tkModified = TRUE
  /\ events = <<>>
  /\ bindings = BindingsAfterSetup(TRUE)
  /\ current_file = [root |-> "b", ext |-> ".py"]
  /\ file_type = SetFileType(current_file)
  /\ is_highlighting = FALSE
  /\ stop_highlighting = FALSE
  /\ highlight_thread = 0
  /\ highlight_timer = 0
  /\ timers = {}
  /\ idleQ = <<>>
  /\ workers = [w \in 1..MaxScans |-> NewWorker]
  /\ mainPc = "idle"
  /\ hist = [nscans |-> 0, calls |-> 0, edits |-> 0, opens |-> 1, timerSeq |-> 0,
             eventVer |-> 0, burst |-> FALSE, lastFire |-> "none"]
  /\ patterns = PythonPatterns
  /\ SearchReplaceInit
  /\ AppInit(<<current_file>>, text)

\* self._get_text_index(content, char_pos) on the document's text
GetTextIndexCall(char_pos) ==
  /\ frame.op = "none"
  /\ frame' = [op |-> "_get_text_index", pc |-> "done", content |-> text,
               char_pos |-> char_pos, ret |-> GetTextIndex(text, char_pos)]
  /\ UNCHANGED <<text, tags, tkModified, events, insert, case_sensitive, whole_words,
                 use_regex, wrap_around, last_search, dialogs, hlVars, is_modified>>

MapNext == \E char_pos \in 0..(Len(text) + MaxPast) : GetTextIndexCall(char_pos)

MapSpec == MapInit /\ [][MapNext]_vars

\* the mapper has returned the position of an offset inside the document
MappedInside == frame.op = "_get_text_index" /\ frame.char_pos <= Len(frame.content)

\* C16: for an offset o of the document, the mapper returns line 1 + (the
\* number of newlines before o) and column o minus the index just after the
\* last newline before o, or o when there is none; offset 0 gives line 1,
\* column 0.
C16_PositionOfOffset ==
  MappedInside
    => LET newlines == {i \in 1..frame.char_pos : frame.content[i] = "\n"}
       IN  /\ frame.ret.line = 1 + Cardinality(newlines)
           /\ frame.ret.col = (IF newlines = {} THEN frame.char_pos
                               ELSE frame.char_pos - SetMax(newlines))
           /\ frame.char_pos = 0 => (frame.ret.line = 1 /\ frame.ret.col = 0)

\* an offset on the third line, after two characters of it
C16_Witness ==
  /\ MappedInside
  /\ frame.ret.line = 3
  /\ frame.ret.col = 2

\* C17: the position of an offset of the document leads back to the offset:
\* the start of the position's line plus its column is the offset again, and
\* so is the widget's reading of the position.
C17_RoundTrip ==
  MappedInside
    => /\ LineStartOffset(WidgetText(frame.content), frame.ret.line) + frame.ret.col
            = frame.char_pos
       /\ TkOffset(frame.content, frame.ret) = frame.char_pos

\* the offset at the end of a document whose last line is empty
C17_Witness ==
  /\ MappedInside
  /\ frame.char_pos = Len(frame.content)
  /\ frame.char_pos >= 2
  /\ frame.content[frame.char_pos] = "\n"

\* C18: for an offset past the end of the document the mapper returns the
\* position it returns for the offset at the end.
C18_PastEndClamps ==
  (frame.op = "_get_text_index" /\ frame.char_pos > Len(frame.content))
    => frame.ret = GetTextIndex(frame.content, Len(frame.content))

(***************************************************************************)
(* One scan with a corrupted language definition: the regex of one pattern *)
(* of languages['python']['patterns'] does not compile.                    *)
(***************************************************************************)
MalformedInit ==
  \E pat \in DOMAIN PythonPatterns : ScanStart([PythonPatterns EXCEPT ![pat] = "re.error"])

MalformedSpec == MalformedInit /\ [][ScanNext]_vars

\* the characters that carry tag
Tagged(tag) == {i \in DOMAIN tags : \E x \in tags[i] : x.tag = tag}

\* the characters of content inside a match of the regex of pass k
Matched(content, k) ==
  LET calls == PassCalls(content, k)
  IN  {i \in 1..Len(content) :
         \E n \in DOMAIN calls : /\ TkOffset(content, calls[n].start) < i
                                 /\ i <= TkOffset(content, calls[n].end)}

\* C19: a pattern that does not compile is skipped on its own: once the scan
\* has ended and its callbacks have run, the category of the malformed pattern
\* has no span, every other category has all its spans, and the highlighter
\* is back in its not-highlighting state.
C19_MalformedPatternSkipped ==
  (workers[1].pc = "done" /\ idleQ = <<>>)
    => /\ ~is_highlighting
       /\ \A k \in 1..NumPasses :
            Tagged(PythonPasses[k].tag) = (IF Malformed(k) THEN {} ELSE Matched(text, k))

\* the string pattern is malformed, the text has a quote and a keyword, and
\* the keyword, a later category, is tagged
C19_Witness ==
  /\ workers[1].pc = "done"
  /\ idleQ = <<>>
  /\ patterns["string"] = "re.error"
  /\ \E i \in DOMAIN text : text[i] = "\""
  /\ Tagged("syntax_string") = {}
  /\ Tagged("syntax_keyword") # {}

(***************************************************************************)
(* Properties of the file type, checked under Spec.                        *)
(***************************************************************************)
\* C20: a file whose extension is in no language definition gets the type
\* 'text', no path gets no type, and no step that ends with one of these
\* types current starts a worker thread, waits to start one or schedules a
\* highlight timer.
C20_NoScanForPlainText ==
  [][ /\ (hist'.opens # hist.opens /\ Lower(current_file'.ext) \notin Extensions("python"))
         => file_type' = "text"
      /\ SetFileType(NoPath) = "None"
      /\ file_type' \in {"text", "None"}
         => /\ hist'.nscans = hist.nscans
            /\ workers' = workers \/ highlight_thread' = highlight_thread
            /\ mainPc' # "join"
            /\ timers' \subseteq timers
            /\ highlight_timer' = highlight_timer ]_vars

\* c.txt is open, a key was pressed in it and its events went to the
\* highlighter's handler: no worker was ever started, no timer is pending
C20_Witness ==
  /\ current_file.ext = ".txt"
  /\ file_type = "text"
  /\ bindings["<KeyRelease>"] = "SyntaxHighlighter._on_text_change"
  /\ hist.edits >= 1
  /\ events = <<>>
  /\ hist.nscans = 0
  /\ timers = {}

(***************************************************************************)
(* Repeated searching: after a first find_next or find_previous with a     *)
(* term, the user presses F3 / Shift+F3 again and again; find_next() and   *)
(* find_previous() without an argument search for last_search from where   *)
(* the last call left the cursor and the selection.                        *)
(***************************************************************************)
\* message boxes shown in one run
MaxBoxes == 3

\* find_next() (lines 216-225) after an earlier search: search_term is None
FindNextAgain(first, second) ==
  /\ mainPc = "idle"
  /\ frame.pc = "done"
  /\ Len(dialogs) < MaxBoxes
  /\ IF last_search = <<>>
     THEN /\ dialogs' = Append(dialogs, "show_find_dialog")
          /\ frame' = [NoCall EXCEPT !.op = "find_next", !.pc = "done", !.ret = "False",
                                     !.cursor = insert, !.orig = text]
          /\ UNCHANGED <<tags, insert, last_search>>
     ELSE SearchForward(last_search, insert, Options, StartPos(insert), first, second)
  /\ UNCHANGED <<text, tkModified, events, case_sensitive, whole_words, use_regex,
                 wrap_around, hlVars, is_modified>>

\* find_previous() (lines 227-236) after an earlier search, up to the loop of
\* _find_all_matches
FindPreviousAgain ==
  /\ mainPc = "idle"
  /\ frame.pc = "done"
  /\ Len(dialogs) < MaxBoxes
  /\ IF last_search = <<>>
     THEN /\ dialogs' = Append(dialogs, "show_find_dialog")
          /\ frame' = [NoCall EXCEPT !.op = "find_previous", !.pc = "done", !.ret = "False",
                                     !.cursor = insert, !.orig = text]
     ELSE /\ dialogs' = dialogs
          /\ frame' = [NoCall EXCEPT !.op = "find_previous", !.pc = "loop",
                                     !.search_term = last_search,
                                     !.cursor = insert, !.orig = text]
  /\ UNCHANGED <<text, tags, tkModified, events, insert, case_sensitive, whole_words,
                 use_regex, wrap_around, last_search, hlVars, is_modified>>

RepeatNext ==
  \/ NotCalled /\ \E search_term \in SearchTerms, cursor \in 0..Len(text), o \in AllOptions :
                    FindNext(search_term, cursor, o)
  \/ NotCalled /\ \E search_term \in SearchTerms, cursor \in 0..Len(text), o \in AllOptions :
                    FindPrevious(search_term, cursor, o)
  \/ FindNextAgain(FindNextMatch(text, Options, last_search, StartPos(insert)),
                   FindNextMatch(text, Options, last_search, Idx(1, 0)))
  \/ FindPreviousAgain
  \/ FindAllMatches
  \/ SearchBackwardEnd

RepeatSpec == SearchInit /\ [][RepeatNext]_vars

(***************************************************************************)
(* Properties of repeated searching, checked under RepeatSpec.             *)
(***************************************************************************)
\* the first match of term in doc that starts at offset pos or later
FirstMatchFrom(doc, o, term, pos) ==
  IF o.use_regex
  THEN IF RegexError(term) THEN NoMatch
       ELSE LET m == ReSearch(term, SubSeq(doc, pos + 1, Len(doc)), ~o.case_sensitive)
            IN  IF m = NoMatch THEN NoMatch ELSE Whole(pos + m.s, pos + m.e)
  ELSE LET chars == TermText(term)
           hits  == {i \in pos..Len(doc) :
                       /\ Occurs(doc, chars, i, ~o.case_sensitive)
                       /\ o.whole_words
                            => i \in WholeWordOccurrences(doc, chars, ~o.case_sensitive)}
       IN  IF hits = {} THEN NoMatch ELSE Whole(SetMin(hits), SetMin(hits) + Len(chars))

\* the matches of term in doc from offset pos on, in document order, each
\* starting where the one before it ended
RECURSIVE TermMatches(_, _, _, _)
TermMatches(doc, o, term, pos) ==
  LET m == FirstMatchFrom(doc, o, term, pos)
  IN  IF pos > Len(doc) \/ m = NoMatch THEN <<>>
      ELSE <<m>> \o TermMatches(doc, o, term, IF m.e > m.s THEN m.e ELSE m.s + 1)

\* the offsets of the characters of match m
Span(m) == m.s..(m.e - 1)

\* where a find-next made now starts: after the selection, or at the cursor
\* the call is made with
SearchStart(cursor) == IF Selection # {} THEN SetMax(Selection) + 1 ELSE cursor

\* the match that is next in document order from offset pos, the first one
\* of the document after the last
NextInOrder(doc, o, term, pos) ==
  IF FirstMatchFrom(doc, o, term, pos) # NoMatch THEN FirstMatchFrom(doc, o, term, pos)
  ELSE FirstMatchFrom(doc, o, term, 0)

\* C24: with wrap-around on, find-next reports not-found only when the
\* document has no match of the term; otherwise it selects the match that is
\* next in document order, the first one after the last, so that a find-next
\* made while match k is selected selects match k + 1.
C24_FindNextCycles ==
  [][ ( /\ frame'.op = "find_next"
        /\ frame'.pc = "done"
        /\ frame'.search_term # <<>>
        /\ wrap_around' )
      => LET M == TermMatches(text, Options', frame'.search_term, 0)
         IN  /\ frame'.ret = "False" => M = <<>>
             /\ frame'.ret = "True"
                  => Selection' = Span(NextInOrder(text, Options', frame'.search_term,
                                                   SearchStart(frame'.cursor)))
             /\ \A k \in DOMAIN M :
                  (Selection # {} /\ Selection = Span(M[k]))
                    => /\ frame'.ret = "True"
                       /\ Selection' = Span(M[IF k < Len(M) THEN k + 1 ELSE 1]) ]_vars

\* C25: with wrap-around on, find-previous reports not-found only when the
\* document has no match of the term; when the only match of the document is
\* the selection, find-previous selects it again.
C25_FindPreviousWraps ==
  [][ ( /\ frame'.op = "find_previous"
        /\ frame'.pc = "done"
        /\ frame'.search_term # <<>>
        /\ wrap_around' )
      => LET M == TermMatches(text, Options', frame'.search_term, 0)
         IN  /\ frame'.ret = "False" => M = <<>>
             /\ (Len(M) = 1 /\ Selection # {} /\ Selection = Span(M[1]))
                  => /\ frame'.ret = "True"
                     /\ Selection' = Selection ]_vars

(***************************************************************************)
(* The editor's modified flag (EditorWindow.set_modified) under Spec.      *)
(***************************************************************************)
\* every event the edits queued has been handled and no handler is running
EventsHandled == events = <<>> /\ mainPc = "idle"

\* C28: once the user has changed the text of an opened document and the
\* widget's events have been handled, the editor's modified flag is True:
\* the <<Modified>> event reaches EditorWindow._on_modified although
\* SyntaxHighlighter and AutoSave bind the same event after it.
C28_EditMarksModified ==
  (current_file # NoPath /\ text # disk /\ EventsHandled) => is_modified

(***************************************************************************)
(* Auto-save (features/autosave.py): the worker threads, start and stop,   *)
(* the deferred reset of the modified flag, and closing the window.        *)
(* The document is c.txt, a file the highlighter leaves alone.             *)
(***************************************************************************)
\* what the highlighter and the search own: no step of auto-save or of
\* closing the window changes it
quietVars ==
  <<bindings, current_file, file_type, is_highlighting, stop_highlighting, highlight_thread,
    highlight_timer, timers, workers, patterns, findVars>>

\* the text widget and the events it queued
widgetVars == <<text, tags, insert, tkModified, events>>

\* the contents a backup holds and the file holds
SaveContents == { <<"a">>, <<"b">> }

\* window.after_idle(self._update_ui_after_save)
UpdateUI == [func |-> "AutoSave._update_ui_after_save"]

\* thread.is_alive()
SaverAlive(s) == savers[s].pc \notin {"unborn", "done"}

\* the callers of stop() that can be waiting in its join
StopCallers ==
  {"MenuBar._toggle_autosave", "AutoSave.set_enabled", "AutoSave._on_window_close",
   "EditorWindow.close"}

\* AutoSave.start, past its is_running test: the new thread takes the place
\* of one that never ran or has returned
StartBody ==
  /\ \E s \in DOMAIN savers : ~SaverAlive(s)
  /\ LET s == SetMin({t \in DOMAIN savers : ~SaverAlive(t)})
     IN  /\ is_running' = TRUE
         /\ stop_thread' = FALSE
         /\ auto_save_thread' = s
         /\ savers' = [savers EXCEPT ![s] = [NewSaver EXCEPT !.pc = "while"]]

\* what caller does once stop() has returned: set_enabled stores the
\* setting; EditorWindow.close destroys the window and
\* ModernNotepadApp.close_window removes it and quits with no window left;
\* the others return
AfterStop(caller) ==
  /\ mainPc' = "idle"
  /\ config' = IF caller = "AutoSave.set_enabled"
               THEN [config EXCEPT !.autosave_enabled = enabled']
               ELSE config
  /\ window' = IF caller = "EditorWindow.close" THEN "destroyed"
               ELSE IF caller = "AutoSave._on_window_close" THEN "open"
               ELSE window
  /\ editor_windows' = IF caller = "EditorWindow.close" THEN editor_windows \ {1}
                       ELSE editor_windows
  /\ root' = IF caller = "EditorWindow.close" /\ editor_windows' = {} THEN "quit" ELSE root
  /\ UNCHANGED protocol

\* AutoSave.stop called by caller, up to the return of a join that
\* is not needed, or up to the join
Stop(caller) ==
  IF ~is_running
  THEN /\ UNCHANGED <<is_running, stop_thread>>
       /\ AfterStop(caller)
  ELSE /\ is_running' = FALSE
       /\ stop_thread' = TRUE
       /\ IF auto_save_thread # 0 /\ SaverAlive(auto_save_thread)
          THEN /\ mainPc' = caller
               /\ UNCHANGED <<config, winVars>>
          ELSE AfterStop(caller)

\* auto_save_thread.join(timeout=1.0) returns: the thread has finished or
\* the second has passed
StopJoinReturn ==
  /\ mainPc \in StopCallers
  /\ UNCHANGED <<enabled>>
  /\ AfterStop(mainPc)
  /\ UNCHANGED <<is_running, stop_thread, auto_save_thread, last_content_hash, savers,
                 is_modified, disk, idleQ, hist, widgetVars, quietVars>>

\* MenuBar._toggle_autosave
ToggleAutosave ==
  /\ mainPc = "idle"
  /\ window # "destroyed"
  /\ UNCHANGED enabled
  /\ IF enabled /\ is_running
     THEN /\ Stop("MenuBar._toggle_autosave")
          /\ UNCHANGED <<auto_save_thread, savers>>
     ELSE /\ IF is_running
             THEN UNCHANGED <<is_running, stop_thread, auto_save_thread, savers>>
             ELSE StartBody
          /\ UNCHANGED <<mainPc, config, winVars>>
  /\ UNCHANGED <<last_content_hash, is_modified, disk, idleQ, hist, widgetVars, quietVars>>

\* AutoSave.set_enabled, called by SettingsWindow._apply_settings
SetEnabled(on) ==
  /\ mainPc = "idle"
  /\ window # "destroyed"
  /\ IF on /\ ~is_running
     THEN /\ enabled' = TRUE
          /\ StartBody
          /\ config' = [config EXCEPT !.autosave_enabled = TRUE]
          /\ UNCHANGED <<mainPc, winVars>>
     ELSE IF ~on /\ is_running
     THEN /\ enabled' = FALSE
          /\ Stop("AutoSave.set_enabled")
          /\ UNCHANGED <<auto_save_thread, savers>>
     ELSE /\ config' = [config EXCEPT !.autosave_enabled = enabled]
          /\ UNCHANGED <<enabled, is_running, stop_thread, auto_save_thread, savers, mainPc,
                         winVars>>
  /\ UNCHANGED <<last_content_hash, is_modified, disk, idleQ, hist, widgetVars, quietVars>>

\* AutoSave.restore_from_backup with the backup's content
RestoreFromBackup(content) ==
  /\ mainPc = "idle"
  /\ window # "destroyed"
  /\ hist.edits < MaxEdits
  /\ text' = content
  /\ tags' = NoTags(content)
  /\ insert' = Len(content)
  /\ tkModified' = TRUE
  /\ events' = Touch(events)
  /\ is_modified' = TRUE
  /\ hist' = [hist EXCEPT !.edits = @ + 1]
  /\ UNCHANGED <<config, disk, saveVars, winVars, idleQ, mainPc, quietVars>>

\* the idle callback AutoSave._update_ui_after_save
IdleUpdateUI ==
  /\ mainPc = "idle"
  /\ window # "destroyed"
  /\ events = <<>>
  /\ idleQ # <<>>
  /\ Head(idleQ) = UpdateUI
  /\ idleQ' = Tail(idleQ)
  /\ is_modified' = FALSE
  /\ UNCHANGED <<config, disk, saveVars, winVars, mainPc, hist, widgetVars, quietVars>>

\* _auto_save_worker: the test of the while loop, and whether the interval
\* has passed (lines 99-103)
SaverWhile(s) ==
  /\ root = "running"
  /\ savers[s].pc = "while"
  /\ IF ~stop_thread /\ is_running
     THEN \E due \in BOOLEAN :
            savers' = [savers EXCEPT ![s].pc = IF due THEN "perform" ELSE "sleep"]
     ELSE savers' = [savers EXCEPT ![s].pc = "done"]
  /\ UNCHANGED <<enabled, is_running, stop_thread, auto_save_thread, last_content_hash,
                 is_modified, config, disk, winVars, idleQ, mainPc, hist, widgetVars,
                 quietVars>>

\* _perform_auto_save: the test of editor.is_modified (lines 123-125)
SaverPerform(s) ==
  /\ root = "running"
  /\ savers[s].pc = "perform"
  /\ savers' = [savers EXCEPT ![s].pc = IF ~is_modified THEN "sleep" ELSE "get"]
  /\ UNCHANGED <<enabled, is_running, stop_thread, auto_save_thread, last_content_hash,
                 is_modified, config, disk, winVars, idleQ, mainPc, hist, widgetVars,
                 quietVars>>

\* _perform_auto_save: the text is read and its hash compared (lines 128-133)
SaverGet(s) ==
  /\ root = "running"
  /\ savers[s].pc = "get"
  /\ savers' = [savers EXCEPT ![s].current_content = text,
                              ![s].pc = IF Hash(text) = last_content_hash THEN "sleep"
                                        ELSE "save"]
  /\ UNCHANGED <<enabled, is_running, stop_thread, auto_save_thread, last_content_hash,
                 is_modified, config, disk, winVars, idleQ, mainPc, hist, widgetVars,
                 quietVars>>

\* _perform_auto_save: the file is written and the reset of the flag is left
\* to the main loop; an untitled document goes to a file of its own
\* (lines 136-157)
SaverSave(s) ==
  /\ root = "running"
  /\ savers[s].pc = "save"
  /\ last_content_hash' = Hash(savers[s].current_content)
  /\ IF current_file # NoPath
     THEN /\ disk' = savers[s].current_content
          /\ idleQ' = Append(idleQ, UpdateUI)
     ELSE UNCHANGED <<disk, idleQ>>
  /\ savers' = [savers EXCEPT ![s].pc = "sleep"]
  /\ UNCHANGED <<enabled, is_running, stop_thread, auto_save_thread, is_modified, config,
                 winVars, mainPc, hist, widgetVars, quietVars>>

\* time.sleep(10) returns
SaverSleep(s) ==
  /\ root = "running"
  /\ savers[s].pc = "sleep"
  /\ savers' = [savers EXCEPT ![s].pc = "while"]
  /\ UNCHANGED <<enabled, is_running, stop_thread, auto_save_thread, last_content_hash,
                 is_modified, config, disk, winVars, idleQ, mainPc, hist, widgetVars,
                 quietVars>>

\* the window manager asks for the window to be closed
CloseRequest ==
  /\ window = "open"
  /\ window' = "closing"
  /\ UNCHANGED <<is_modified, config, disk, saveVars, protocol, editor_windows, root, idleQ,
                 mainPc, hist, widgetVars, quietVars>>

\* the WM_DELETE_WINDOW handler of the window runs: AutoSave._on_window_close,
\* with _perform_auto_save called by the main thread
OnWindowClose ==
  /\ mainPc = "idle"
  /\ window = "closing"
  /\ protocol = "AutoSave._on_window_close"
  /\ IF enabled /\ is_modified /\ Hash(text) # last_content_hash
     THEN /\ last_content_hash' = Hash(text)
          /\ IF current_file # NoPath
             THEN /\ disk' = text
                  /\ idleQ' = Append(idleQ, UpdateUI)
             ELSE UNCHANGED <<disk, idleQ>>
     ELSE UNCHANGED <<last_content_hash, disk, idleQ>>
  /\ Stop("AutoSave._on_window_close")
  /\ UNCHANGED <<enabled, auto_save_thread, savers, is_modified, hist, widgetVars, quietVars>>

\* File > Close: EditorWindow.close, with the answer to the save prompt
EditorClose(answer) ==
  /\ mainPc = "idle"
  /\ window = "open"
  /\ is_modified \/ answer = "no"
  /\ IF is_modified /\ answer = "cancel"
     THEN UNCHANGED <<is_modified, disk, is_running, stop_thread, mainPc, config, winVars>>
     ELSE /\ IF is_modified /\ answer = "yes"
             THEN /\ disk' = text
                  /\ is_modified' = FALSE
             ELSE UNCHANGED <<disk, is_modified>>
          /\ Stop("EditorWindow.close")
  /\ UNCHANGED <<enabled, auto_save_thread, last_content_hash, savers, idleQ, hist, widgetVars,
                 quietVars>>

\* c.txt is open and its events are handled
AutoSaveStart ==
  /\ current_file = [root |-> "c", ext |-> ".txt"]
  /\ \E content \in SaveContents :
       /\ text = content
       /\ tags = NoTags(content)
       /\ insert = Len(content)
       /\ AppInit(<<current_file>>, content)
  /\ file_type = SetFileType(current_file)
  /\ tkModified = TRUE
  /\ events = <<>>
  /\ bindings = BindingsAfterSetup(FALSE)
  /\ SearchReplaceInit
  /\ patterns = PythonPatterns
  /\ is_highlighting = FALSE
  /\ stop_highlighting = FALSE
  /\ highlight_thread = 0
  /\ highlight_timer = 0
  /\ timers = {}
  /\ idleQ = <<>>
  /\ workers = [w \in 1..MaxScans |-> NewWorker]
  /\ mainPc = "idle"
  /\ hist = [nscans |-> 0, calls |-> 0, edits |-> 0, opens |-> 1, timerSeq |-> 0,
             eventVer |-> 0, burst |-> FALSE, lastFire |-> "none"]

AutoSaveNext ==
  \/ ToggleAutosave
  \/ \E on \in BOOLEAN : SetEnabled(on)
  \/ StopJoinReturn
  \/ \E content \in SaveContents : RestoreFromBackup(content)
  \/ IdleUpdateUI
  \/ CloseRequest
  \/ OnWindowClose
  \/ \E answer \in {"cancel", "yes", "no"} : EditorClose(answer)
  \/ \E s \in 1..MaxSavers :
       \/ SaverWhile(s) \/ SaverPerform(s) \/ SaverGet(s) \/ SaverSave(s) \/ SaverSleep(s)

AutoSaveSpec == AutoSaveStart /\ [][AutoSaveNext]_vars

(***************************************************************************)
(* Properties of auto-save and of closing the window, under AutoSaveSpec.  *)
(***************************************************************************)
\* saver s finds the test of its while loop true and goes round once more
LoopsAgain(s) == savers[s].pc = "while" /\ savers'[s].pc \in {"perform", "sleep"}

\* C26: whatever start(), stop(), set_enabled() and the menu toggle did, only
\* the worker of the last start() goes round its loop: a worker of an
\* earlier start(), asleep when stop() gave up waiting for it, leaves its
\* loop when it wakes, also after a later start() has reset the stop flag.
C26_OnlyLastWorkerLoops ==
  [][\A s \in DOMAIN savers : LoopsAgain(s) => s = auto_save_thread]_vars

\* C27: once an auto-save has written the file, the modified flag is False
\* only while the text is what the file holds: an edit made after the saver
\* read the text and before the main loop ran the deferred reset is not
\* marked as saved.
C27_UnmodifiedMeansSaved ==
  (last_content_hash # NoHash /\ current_file # NoPath /\ ~is_modified) => text = disk

\* C29: the handler of a close request on a window without unsaved changes
\* returns only with the window destroyed and out of the application's
\* list, and with the application quit once the list is empty.
C29_CloseRequestCloses ==
  [][(window = "closing" /\ window' # "closing" /\ ~is_modified)
       => /\ window' = "destroyed"
          /\ 1 \notin editor_windows'
          /\ (editor_windows' = {} => root' = "quit")]_vars

(***************************************************************************)
(* The recent-files list (utils/config_loader.py, lines 116-142), with     *)
(* max_recent_files as the configuration file gives it.                    *)
(***************************************************************************)
\* the paths of the files opened
RecentPaths == {"a.txt", "b.txt", "c.txt", "d.txt", "e.txt", "f.txt"}

\* max_recent_files: the least value of the settings window's spinbox
\* (settings_window.py, lines 163-168), and the least one that keeps a path
RecentLimits == {1, 5}

\* no path added yet
NoRecent == ""

\* everything but the configuration
recentQuiet ==
  <<widgetVars, quietVars, idleQ, mainPc, is_modified, disk, saveVars, winVars>>

RecentInit ==
  /\ insert = 0
  /\ SearchReplaceInit
  /\ patterns = PythonPatterns
  /\ is_modified = FALSE
  /\ \E max_recent \in RecentLimits :
       config = [DefaultConfig EXCEPT !.max_recent_files = max_recent]
  /\ disk = <<>>
  /\ AutoSaveInit
  /\ protocol = ProtocolAfterSetup
  /\ editor_windows = {1}
  /\ window = "open"
  /\ root = "running"
  /\ text = <<>>
  /\ tags = <<>>
  /\ tkModified = FALSE
  /\ events = <<>>
  /\ bindings = BindingsAfterSetup(FALSE)
  /\ current_file = NoPath
  /\ file_type = "None"
  /\ is_highlighting = FALSE
  /\ stop_highlighting = FALSE
  /\ highlight_thread = 0
  /\ highlight_timer = 0
  /\ timers = {}
  /\ idleQ = <<>>
  /\ workers = [w \in 1..MaxScans |-> NewWorker]
  /\ mainPc = "idle"
  \* history: the path of the last add_recent_file; whether it was removed,
  \* or the list cleared, since; whether an add dropped the oldest entry,
  \* and whether one moved an entry of the list to the front
  /\ hist = [last_added |-> NoRecent, removed |-> FALSE, dropped |-> FALSE, moved |-> FALSE]

\* config.add_recent_file(file_path), called by FileOperations.open_file
AddRecentFileCall(file_path) ==
  /\ config' = AddRecentFile(config, file_path)
  /\ hist' = [hist EXCEPT !.last_added = file_path,
                          !.removed = FALSE,
                          !.dropped = @ \/ (~PyIn(file_path, config.recent_files)
                                            /\ Len(config.recent_files) >= config.max_recent_files),
                          !.moved = @ \/ (PyIn(file_path, config.recent_files)
                                          /\ config.recent_files[1] # file_path)]
  /\ UNCHANGED recentQuiet

\* config.remove_recent_file(file_path), called by FileOperations.open_file
\* for a file that is gone
RemoveRecentFileCall(file_path) ==
  /\ config' = RemoveRecentFile(config, file_path)
  /\ hist' = [hist EXCEPT !.removed = @ \/ (file_path = hist.last_added)]
  /\ UNCHANGED recentQuiet

\* config.clear_recent_files()
ClearRecentFilesCall ==
  /\ config' = ClearRecentFiles(config)
  /\ hist' = [hist EXCEPT !.removed = @ \/ (hist.last_added # NoRecent)]
  /\ UNCHANGED recentQuiet

RecentNext ==
  \/ \E file_path \in RecentPaths : AddRecentFileCall(file_path)
  \/ \E file_path \in RecentPaths : RemoveRecentFileCall(file_path)
  \/ ClearRecentFilesCall

RecentSpec == RecentInit /\ [][RecentNext]_vars

\* no path is twice in the list
NoDuplicates(list) == \A i, j \in DOMAIN list : list[i] = list[j] => i = j

\* the list is not empty and path is its first entry
IsFirst(path, list) == list # <<>> /\ list[1] = path

====
